---------------------------- MODULE Spec2Model ----------------------------
(***************************************************************************)
(* Model of the conversational orchestrator of leono81/agent:              *)
(*   app/agents/orchestrator_agent.py   SharedContext, OrchestratorAgent   *)
(*   app/agents/incident_template_agent.py   TEMPLATE_CONFIG               *)
(* One action is one call of OrchestratorAgent.process_message_sync.       *)
(* Text is modelled as a sequence of one-character strings, so that        *)
(* str.lower(), str.strip(), str.split(',') and the `in` substring test    *)
(* are computed as Python computes them.                                   *)
(***************************************************************************)
EXTENDS Naturals, Integers, Sequences, FiniteSets, TLC

(***************************************************************************)
(* Bounds of the model (not program constants).                            *)
(***************************************************************************)
\* number of non-cleanup calls of process_message_sync in a session
MaxTurns == 5
\* number of messages of a session of SpecFlow
MaxFlowTurns == 14
\* number of turns delegated to a Task Agent (Jira / Confluence) in a session
MaxTaskTurns == 2
\* number of items accumulated in temp_list_items for one list question
MaxListItems == 2

(***************************************************************************)
(* Program constants.                                                      *)
(***************************************************************************)
MAX_HISTORY_LENGTH == 20
AGENT_CANNOT_HANDLE_SIGNAL == "$AGENT_CANNOT_HANDLE"
\* the text "$__cleanup_signal__"
CLEANUP_SIGNAL ==
    <<"$","_","_","c","l","e","a","n","u","p","_","s","i","g","n","a","l","_","_">>

(***************************************************************************)
(* Text helpers: Python str operations on sequences of characters.         *)
(***************************************************************************)
UpperCase == <<"A","B","C","D","E","F","G","H","I","J","K","L","M",
               "N","O","P","Q","R","S","T","U","V","W","X","Y","Z">>
LowerCase == <<"a","b","c","d","e","f","g","h","i","j","k","l","m",
               "n","o","p","q","r","s","t","u","v","w","x","y","z">>

\* str.lower() on one character
LowerOf ==
    [c \in {UpperCase[i] : i \in 1..Len(UpperCase)} |->
        LowerCase[CHOOSE i \in 1..Len(UpperCase) : UpperCase[i] = c]]

LowerChar(c) == IF c \in DOMAIN LowerOf THEN LowerOf[c] ELSE c

\* str.lower()
Lower(s) == [i \in 1..Len(s) |-> LowerChar(s[i])]

\* Python `a in b` for two strings: a is a contiguous substring of b
IsSubstr(a, b) ==
    \E i \in 0..(Len(b) - Len(a)) : SubSeq(b, i + 1, i + Len(a)) = a

Whitespace == {" ", "\t", "\n"}

RECURSIVE LStrip(_)
LStrip(s) == IF s # <<>> /\ Head(s) \in Whitespace THEN LStrip(Tail(s)) ELSE s

RECURSIVE RStrip(_)
RStrip(s) ==
    IF s # <<>> /\ s[Len(s)] \in Whitespace
    THEN RStrip(SubSeq(s, 1, Len(s) - 1))
    ELSE s

\* str.strip()
Strip(s) == RStrip(LStrip(s))

\* str.split(sep) for a one-character separator: always at least one piece
RECURSIVE SplitAcc(_, _, _)
SplitAcc(s, sep, cur) ==
    IF s = <<>> THEN <<cur>>
    ELSE IF Head(s) = sep THEN <<cur>> \o SplitAcc(Tail(s), sep, <<>>)
    ELSE SplitAcc(Tail(s), sep, Append(cur, Head(s)))

Split(s, sep) == SplitAcc(s, sep, <<>>)

\* [f(x) for x in xs if p(x)] for f = strip, p = non-empty after strip
RECURSIVE StrippedNonEmpty(_)
StrippedNonEmpty(xs) ==
    IF xs = <<>> THEN <<>>
    ELSE (IF Strip(Head(xs)) # <<>> THEN <<Strip(Head(xs))>> ELSE <<>>)
         \o StrippedNonEmpty(Tail(xs))

\* membership of a value in a Python list
InList(x, xs) == \E i \in 1..Len(xs) : xs[i] = x

(***************************************************************************)
(* Keyword lists of _handle_incident_flow.                                 *)
(***************************************************************************)
CancelKeywords ==
    << <<"c","a","n","c","e","l","a","r">>, <<"s","a","l","i","r">>,
       <<"c","a","n","c","e","l">>, <<"e","x","i","t">>,
       <<"d","e","t","e","n","e","r">> >>

AffirmativeKeywords ==
    << <<"s","i_acute">>, <<"s","i">>, <<"y","e","s">>,
       <<"c","o","n","f","i","r","m","a","r">>,
       <<"c","o","n","f","i","r","m","o">> >>

NegativeKeywords ==
    << <<"n","o">>, <<"c","o","r","r","e","g","i","r">>,
       <<"e","d","i","t","a","r">>,
       <<"m","o","d","i","f","i","c","a","r">> >>

NoneKeywords ==
    << <<"n","i","n","g","u","n","o">>, <<"n","o","n","e">>,
       <<"n","o"," ","h","a","y">>, <<"n","a","d","i","e">> >>

(***************************************************************************)
(* TEMPLATE_CONFIG of incident_template_agent.py: the ordered questions.   *)
(* follow_up / help_text record whether the dict has that entry.           *)
(***************************************************************************)
TEMPLATE_CONFIG ==
    << [key |-> "tipo_incidente", type |-> "text", options |-> <<>>,
        follow_up |-> FALSE, help_text |-> FALSE],
       [key |-> "impacto", type |-> "choice",
        options |-> << <<"A","l","t","o">>, <<"M","e","d","i","o">>,
                       <<"B","a","j","o">> >>,
        follow_up |-> FALSE, help_text |-> FALSE],
       [key |-> "prioridad", type |-> "choice",
        options |-> << <<"A","l","t","a">>, <<"M","e","d","i","a">>,
                       <<"B","a","j","a">> >>,
        follow_up |-> FALSE, help_text |-> FALSE],
       [key |-> "estado_actual", type |-> "choice",
        options |-> << <<"P","e","n","d","i","e","n","t","e">>,
                       <<"E","n"," ","P","r","o","g","r","e","s","o">>,
                       <<"R","e","s","u","e","l","t","o">> >>,
        follow_up |-> FALSE, help_text |-> FALSE],
       [key |-> "unidad_negocio", type |-> "choice",
        options |-> << <<"C","R","O","S","S"," ","U","N","I","D","A","D","E","S">>,
                       <<"U","N","T","M">>,
                       <<"U","N","A","O","N","T","E","C">>,
                       <<"P","L","A","C","A","S"," ","-"," ","S","M","T">> >>,
        follow_up |-> FALSE, help_text |-> FALSE],
       [key |-> "usuarios_soporte", type |-> "list_text", options |-> <<>>,
        follow_up |-> TRUE, help_text |-> FALSE],
       [key |-> "descripcion_problema", type |-> "multiline_text",
        options |-> <<>>, follow_up |-> FALSE, help_text |-> FALSE],
       [key |-> "acciones_realizadas", type |-> "list_structured",
        options |-> <<>>, follow_up |-> TRUE, help_text |-> TRUE],
       [key |-> "fecha_resolucion", type |-> "date_text", options |-> <<>>,
        follow_up |-> FALSE, help_text |-> FALSE],
       [key |-> "observaciones", type |-> "multiline_text", options |-> <<>>,
        follow_up |-> FALSE, help_text |-> FALSE] >>

\* required_fields of _create_incident_page
required_fields ==
    <<"tipo_incidente", "fecha_incidente", "impacto", "prioridad",
      "estado_actual">>

(***************************************************************************)
(* Dates: datetime.strptime / strftime("%Y-%m-%d") / timedelta(days=1).    *)
(* A date is a record [y, m, d]; its ISO text is a sequence of characters. *)
(***************************************************************************)
DigitChars == <<"0","1","2","3","4","5","6","7","8","9">>

IsDigit(c) == \E i \in 1..10 : DigitChars[i] = c

DigitVal(c) == (CHOOSE i \in 1..10 : DigitChars[i] = c) - 1

AllDigits(s) == \A i \in 1..Len(s) : IsDigit(s[i])

\* int(s) for a non-empty string of digits
RECURSIVE ToNumber(_)
ToNumber(s) ==
    IF s = <<>> THEN 0
    ELSE 10 * ToNumber(SubSeq(s, 1, Len(s) - 1)) + DigitVal(s[Len(s)])

\* "%0<width>d" % n
RECURSIVE ZeroPad(_, _)
ZeroPad(n, width) ==
    IF width = 0 THEN <<>>
    ELSE Append(ZeroPad(n \div 10, width - 1), DigitChars[(n % 10) + 1])

IsLeapYear(y) == (y % 4 = 0 /\ y % 100 # 0) \/ y % 400 = 0

DaysInMonth(y, m) ==
    IF m = 2 THEN (IF IsLeapYear(y) THEN 29 ELSE 28)
    ELSE IF m \in {4, 6, 9, 11} THEN 30 ELSE 31

\* date_obj.strftime("%Y-%m-%d")
strftime_iso(dt) ==
    ZeroPad(dt.y, 4) \o <<"-">> \o ZeroPad(dt.m, 2) \o <<"-">> \o ZeroPad(dt.d, 2)

\* date - timedelta(days=1)
minus_one_day(dt) ==
    IF dt.d > 1 THEN [dt EXCEPT !.d = dt.d - 1]
    ELSE IF dt.m > 1
         THEN [y |-> dt.y, m |-> dt.m - 1, d |-> DaysInMonth(dt.y, dt.m - 1)]
         ELSE [y |-> dt.y - 1, m |-> 12, d |-> 31]

NoDate == [y |-> 0, m |-> 0, d |-> 0]

\* the directive %d or %m: one or two digits, value within 1..max
FieldOk(s, max) ==
    /\ Len(s) \in {1, 2}
    /\ AllDigits(s)
    /\ ToNumber(s) \in 1..max

\* datetime.strptime(text, fmt) for the formats "%d<sep>%m<sep>%Y"
\* (year_first = FALSE) and "%Y<sep>%m<sep>%d" (year_first = TRUE);
\* NoDate stands for ValueError
strptime(text, sep, year_first) ==
    LET parts == Split(text, sep)
    IN  IF Len(parts) # 3 THEN NoDate
        ELSE LET ys == IF year_first THEN parts[1] ELSE parts[3]
                 ms == parts[2]
                 ds == IF year_first THEN parts[3] ELSE parts[1]
             IN  IF /\ Len(ys) = 4 /\ AllDigits(ys) /\ ToNumber(ys) >= 1
                    /\ FieldOk(ms, 12)
                    /\ FieldOk(ds, 31)
                    /\ ToNumber(ds) <= DaysInMonth(ToNumber(ys), ToNumber(ms))
                 THEN [y |-> ToNumber(ys), m |-> ToNumber(ms), d |-> ToNumber(ds)]
                 ELSE NoDate

\* the date datetime.now() gives during the session
WallClockDate == [y |-> 2024, m |-> 5, d |-> 20]

NoText == <<"N","o","n","e">>

\* OrchestratorAgent._parse_date: ISO text of the date, or NoText for None
parse_date(date_text) ==
    IF Lower(date_text) = <<"h","o","y">> THEN strftime_iso(WallClockDate)
    ELSE IF Lower(date_text) = <<"a","y","e","r">>
         THEN strftime_iso(minus_one_day(WallClockDate))
    ELSE IF strptime(date_text, "/", FALSE) # NoDate
         THEN strftime_iso(strptime(date_text, "/", FALSE))
    ELSE IF strptime(date_text, "-", FALSE) # NoDate
         THEN strftime_iso(strptime(date_text, "-", FALSE))
    ELSE IF strptime(date_text, ".", FALSE) # NoDate
         THEN strftime_iso(strptime(date_text, ".", FALSE))
    ELSE IF strptime(date_text, "-", TRUE) # NoDate
         THEN strftime_iso(strptime(date_text, "-", TRUE))
    ELSE NoText

(***************************************************************************)
(* Replies.  A reply is described by its kind and by the parts of its text *)
(* the orchestrator builds from data: the question it asks, the option     *)
(* list it prints, the missing fields it names, the agents it names.       *)
(***************************************************************************)
Reply(kind, step, options, fields, agents) ==
    [kind |-> kind, step |-> step, options |-> options, fields |-> fields,
     agents |-> agents]

PlainReply(kind) == Reply(kind, -1, <<>>, <<>>, {})

\* the text of question `step`, with its option list when it is a choice
QuestionReply(kind, step) ==
    Reply(kind, step,
          IF TEMPLATE_CONFIG[step + 1].type = "choice"
          THEN TEMPLATE_CONFIG[step + 1].options ELSE <<>>,
          <<>>, {})

NoReply == PlainReply("none")

(***************************************************************************)
(* The incident flow: metadata["incident_flow"].                           *)
(***************************************************************************)
\* metadata has no "incident_flow" entry before the first cold start
NoFlow ==
    [present |-> FALSE, active |-> FALSE, current_step |-> 0,
     collected_data |-> <<>>, temp_list_items |-> <<>>,
     confirmation_step |-> FALSE]

\* metadata.get("incident_flow", {}).get("active", False)
FlowActive(flow) == flow.present /\ flow.active

\* d[k] = v on a dict
DictSet(d, k, v) == (k :> v) @@ d

\* Python truthiness of a str or list value
Truthy(v) == v # <<>>

\* first option that matches the reply, <<>> (None) when there is none:
\* exact match first, then case-insensitive substring in either direction
RECURSIVE FirstPartialMatch(_, _)
FirstPartialMatch(message_lower, options) ==
    IF options = <<>> THEN <<>>
    ELSE IF \/ IsSubstr(Lower(Head(options)), message_lower)
            \/ IsSubstr(message_lower, Lower(Head(options)))
         THEN Head(options)
         ELSE FirstPartialMatch(message_lower, Tail(options))

\* variant: falls back to the first option when nothing matches
matched_option_defaulting(message, options) ==
    IF InList(message, options) THEN message
    ELSE IF FirstPartialMatch(Lower(message), options) # <<>>
         THEN FirstPartialMatch(Lower(message), options)
         ELSE Head(options)

matched_option(message, options) ==
    IF InList(message, options) THEN message
    ELSE FirstPartialMatch(Lower(message), options)

\* variant: checks only that the key is present, not that it has a value
missing_fields_presence_only(incident_data) ==
    SelectSeq(required_fields, LAMBDA f : f \notin DOMAIN incident_data)

\* [field for field in required_fields
\*        if field not in incident_data or not incident_data[field]]
missing_fields(incident_data) ==
    SelectSeq(required_fields,
              LAMBDA f : f \notin DOMAIN incident_data \/ ~Truthy(incident_data[f]))

\* variant: returns the reply without recording it in the history
FlowResult_unrecorded(flow, reply, page_calls) ==
    [flow |-> flow, appended |-> <<>>, reply |-> reply,
     page_calls |-> page_calls]

\* Result of a handler: the flow it leaves, the replies it appended to the
\* history with add_assistant_message(reply, "incident"), the reply it
\* returned, and the records handed to the Confluence agent for creation.
FlowResult(flow, reply, page_calls) ==
    [flow |-> flow, appended |-> <<reply>>, reply |-> reply,
     page_calls |-> page_calls]

\* OrchestratorAgent._create_incident_page; page_outcome is what the call
\* of confluence_agent.process_message_sync does: "created" (the answer
\* says the page was created), "failed" (any other answer), "raise"
create_incident_page(flow, page_outcome) ==
    LET incident_data == flow.collected_data
        missing == missing_fields(incident_data)
    IN  IF missing # <<>>
        THEN FlowResult(flow, Reply("missing_fields", -1, <<>>, missing, {}), <<>>)
        ELSE IF page_outcome = "raise"
        THEN FlowResult(flow, PlainReply("page_error"), <<incident_data>>)
        ELSE IF page_outcome = "created"
        THEN FlowResult([flow EXCEPT !.active = FALSE],
                        PlainReply("page_created"), <<incident_data>>)
        ELSE FlowResult([flow EXCEPT !.active = FALSE],
                        PlainReply("page_failed"), <<incident_data>>)

\* variant: shows the summary without recording that confirmation is pending
AskConfirmation_unrecorded(flow) ==
    FlowResult(flow, PlainReply("confirm_summary"), <<>>)

\* the summary and the confirmation question
AskConfirmation(flow) ==
    FlowResult([flow EXCEPT !.confirmation_step = TRUE],
               PlainReply("confirm_summary"), <<>>)

\* end of _handle_incident_flow: the answer was stored, ask what is next
AfterAnswer(flow) ==
    IF flow.current_step >= Len(TEMPLATE_CONFIG)
    THEN AskConfirmation(flow)
    ELSE FlowResult(flow, QuestionReply("question", flow.current_step), <<>>)

\* collected_data[current_key] = value; current_step += 1
StoreAndAdvance(flow, key, value) ==
    [flow EXCEPT !.collected_data = DictSet(@, key, value),
                 !.current_step = @ + 1]

\* the list_text / list_structured branch
AnswerList(flow, config, message) ==
    LET temp_list_items == flow.temp_list_items
    IN  IF Strip(message) = <<>> /\ Truthy(temp_list_items)
        THEN AfterAnswer([StoreAndAdvance(flow, config.key, temp_list_items)
                             EXCEPT !.temp_list_items = <<>>])
        ELSE IF InList(Lower(message), NoneKeywords)
        THEN AfterAnswer([StoreAndAdvance(flow, config.key, <<>>)
                             EXCEPT !.temp_list_items = <<>>])
        ELSE LET added ==
                    IF config.type = "list_text"
                    THEN temp_list_items \o StrippedNonEmpty(Split(message, ","))
                    ELSE Append(temp_list_items, message)
                 kept == [flow EXCEPT !.temp_list_items = added]
             IN  IF config.follow_up
                 THEN FlowResult(kept, PlainReply("follow_up"), <<>>)
                 ELSE AfterAnswer(kept)

\* the branch of _handle_incident_flow for the current question's type
AnswerQuestion(flow, message) ==
    LET config == TEMPLATE_CONFIG[flow.current_step + 1]
    IN  CASE config.type \in {"text", "multiline_text"} ->
                AfterAnswer(StoreAndAdvance(flow, config.key, message))
          [] config.type = "choice" ->
                LET m == matched_option(message, config.options)
                IN  IF Truthy(m)
                    THEN AfterAnswer(StoreAndAdvance(flow, config.key, m))
                    ELSE FlowResult(flow,
                                    Reply("invalid_option", flow.current_step,
                                          config.options, <<>>, {}),
                                    <<>>)
          [] config.type = "date_text" ->
                LET parsed_date == parse_date(message)
                IN  IF parsed_date # NoText
                    THEN AfterAnswer(StoreAndAdvance(flow, config.key, parsed_date))
                    ELSE FlowResult(flow, PlainReply("invalid_date"), <<>>)
          [] config.type \in {"list_text", "list_structured"} ->
                AnswerList(flow, config, message)
          [] OTHER -> AfterAnswer(flow)

\* OrchestratorAgent._handle_incident_flow
handle_incident_flow(flow, message, page_outcome) ==
    IF InList(Lower(message), CancelKeywords)
    THEN FlowResult([flow EXCEPT !.active = FALSE], PlainReply("cancelled"), <<>>)
    ELSE IF flow.confirmation_step
    THEN IF InList(Lower(message), AffirmativeKeywords)
         THEN create_incident_page(flow, page_outcome)
         ELSE IF InList(Lower(message), NegativeKeywords)
         THEN FlowResult([flow EXCEPT !.confirmation_step = FALSE,
                                      !.current_step = 0],
                         QuestionReply("correction_question", 0), <<>>)
         ELSE FlowResult(flow, PlainReply("confirm_reprompt"), <<>>)
    ELSE IF flow.current_step >= Len(TEMPLATE_CONFIG)
    THEN AskConfirmation(flow)
    ELSE AnswerQuestion(flow, message)

(***************************************************************************)
(* SharedContext: the conversation history.                                *)
(* An entry is [role, content, agent_type]; a user entry has no            *)
(* agent_type ("none").  content identifies the text by the ordinal of its *)
(* append (no modelled code reads the text of an entry).                   *)
(***************************************************************************)
\* variant: keeps the first MAX_HISTORY_LENGTH entries
trim_history_keep_oldest(h) ==
    IF Len(h) > MAX_HISTORY_LENGTH
    THEN SubSeq(h, 1, MAX_HISTORY_LENGTH)
    ELSE h

\* SharedContext._trim_history: keep only the last MAX_HISTORY_LENGTH
trim_history(h) ==
    IF Len(h) > MAX_HISTORY_LENGTH
    THEN SubSeq(h, Len(h) - MAX_HISTORY_LENGTH + 1, Len(h))
    ELSE h

\* SharedContext.add_user_message
add_user_message(h, content) ==
    trim_history(Append(h, [role |-> "user", content |-> content,
                            agent_type |-> "none"]))

\* SharedContext.add_assistant_message
add_assistant_message(h, content, agent_type) ==
    trim_history(Append(h, [role |-> "assistant", content |-> content,
                            agent_type |-> agent_type]))

\* the add_assistant_message calls of one turn, in order; each element of
\* appended is [reply, agent_type]
RECURSIVE add_assistant_messages(_, _, _)
add_assistant_messages(h, content, appended) ==
    IF appended = <<>> THEN h
    ELSE add_assistant_messages(
             add_assistant_message(h, content, Head(appended).agent_type),
             content + 1, Tail(appended))

(***************************************************************************)
(* Classifier and routing.                                                 *)
(***************************************************************************)
\* What self.classifier.run_sync(query) does: it raises, or result.data is
\* a text.
ClassifierRuns ==
    {[raises |-> FALSE, data |-> t] :
        t \in { <<"J","i","r","a">>,
                <<"c","o","n","f","l","u","e","n","c","e">>,
                <<" ","I","n","c","i","d","e","n","t","\n">>,
                <<"u","n","s","u","r","e">> }}
    \cup {[raises |-> TRUE, data |-> <<>>]}

\* OrchestratorAgent.classify_query
classify_query(run) ==
    IF run.raises THEN "unsure"
    ELSE LET classification == Strip(Lower(run.data))
         IN  IF IsSubstr(<<"j","i","r","a">>, classification) THEN "jira"
             ELSE IF IsSubstr(<<"c","o","n","f","l","u","e","n","c","e">>,
                              classification)
                  THEN "confluence"
             ELSE IF IsSubstr(<<"i","n","c","i","d","e","n","t">>, classification)
                  THEN "incident"
             ELSE "unsure"

\* variant: ignores the previous active_agent
determine_agent_stateless(active_agent, classification) ==
    IF classification = "unsure" THEN "jira" ELSE classification

\* OrchestratorAgent.determine_agent_with_context; active_agent "none" is None
determine_agent_with_context(active_agent, classification) ==
    IF active_agent # "none"
    THEN IF classification # "unsure" /\ classification # active_agent
         THEN classification
         ELSE active_agent
    ELSE IF classification = "unsure" THEN "jira" ELSE classification

\* variant: the alternative is always the Confluence agent
alternative_agent_fixed(initial_agent_name) ==
    IF initial_agent_name \in {"jira", "confluence"} THEN "confluence"
    ELSE "none"

\* the alternative agent of the reflection logic ("none": no alternative)
alternative_agent(initial_agent_name) ==
    IF initial_agent_name = "jira" THEN "confluence"
    ELSE IF initial_agent_name = "confluence" THEN "jira"
    ELSE "none"

(***************************************************************************)
(* OrchestratorAgent.process_message_sync.                                 *)
(* The result of a call: the context it leaves (history, active_agent,     *)
(* flow) and what the call did (classifier runs, Task Agent calls with     *)
(* their results, calls of the flow handler, page-creation calls, the      *)
(* assistant entries appended, the reply returned, and whether an          *)
(* exception left the call).                                               *)
(***************************************************************************)
\* What a Task Agent's process_message_sync(message, history, metadata)
\* does: it returns the signal, returns any other text ("reply"), or raises.
AgentOutcomes == {"reply", AGENT_CANNOT_HANDLE_SIGNAL, "raise"}

\* What the Confluence agent does with the page-creation prompt.
PageOutcomes == {"created", "failed", "raise"}

Appended(reply, agent_type) == [reply |-> reply, agent_type |-> agent_type]

TurnResult(history, active_agent, flow, classification, initial_agent, handle_calls, handle_results, flow_handler_calls, page_calls, appended, reply) ==
    [history |-> history, active_agent |-> active_agent, flow |-> flow,
     classifier_calls |-> 1, classification |-> classification,
     initial_agent |-> initial_agent,
     handle_calls |-> handle_calls, handle_results |-> handle_results,
     flow_handler_calls |-> flow_handler_calls, page_calls |-> page_calls,
     appended |-> appended, reply |-> reply, raised |-> FALSE]

\* lines 304-367: first attempt, reflection, final response handling
delegate(h, flow, content, classification, initial_agent_name, out1, out2) ==
    LET alternative_agent_name == alternative_agent(initial_agent_name)
        Done(final_agent_name, calls, results, reply) ==
            TurnResult(add_assistant_message(h, content, final_agent_name),
                       final_agent_name, flow, classification,
                       initial_agent_name, calls, results, 0, <<>>,
                       <<Appended(reply, final_agent_name)>>, reply)
    IN  IF out1 = "raise"
        THEN \* except Exception of the outer try
             Done(initial_agent_name, <<initial_agent_name>>, <<out1>>,
                  Reply("unexpected_error", -1, <<>>, <<>>, {initial_agent_name}))
        ELSE IF out1 # AGENT_CANNOT_HANDLE_SIGNAL
        THEN Done(initial_agent_name, <<initial_agent_name>>, <<out1>>,
                  Reply("agent_reply", -1, <<>>, <<>>, {initial_agent_name}))
        ELSE IF alternative_agent_name = "none"
        THEN Done(initial_agent_name, <<initial_agent_name>>, <<out1>>,
                  Reply("no_alternative", -1, <<>>, <<>>, {initial_agent_name}))
        ELSE IF out2 = "raise"
        THEN Done(initial_agent_name,
                  <<initial_agent_name, alternative_agent_name>>, <<out1, out2>>,
                  Reply("alternative_error", -1, <<>>, <<>>,
                        {alternative_agent_name}))
        ELSE IF out2 = AGENT_CANNOT_HANDLE_SIGNAL
        THEN Done(initial_agent_name,
                  <<initial_agent_name, alternative_agent_name>>, <<out1, out2>>,
                  Reply("neither_can_handle", -1, <<>>, <<>>,
                        {"jira", "confluence"}))
        ELSE Done(alternative_agent_name,
                  <<initial_agent_name, alternative_agent_name>>, <<out1, out2>>,
                  Reply("agent_reply", -1, <<>>, <<>>, {alternative_agent_name}))

\* variant: the flow starts at the second question
cold_start_skipping_first(h, active_agent, content, classification) ==
    LET flow == [present |-> TRUE, active |-> TRUE, current_step |-> 1,
                 collected_data |->
                     ("fecha_incidente" :> strftime_iso(WallClockDate)),
                 temp_list_items |-> <<>>, confirmation_step |-> FALSE]
        reply == QuestionReply("question", 1)
    IN  TurnResult(add_assistant_message(h, content, "incident"),
                   active_agent, flow, classification, "incident",
                   <<>>, <<>>, 0, <<>>, <<Appended(reply, "incident")>>, reply)

\* lines 245-289: initialise the incident flow and ask the first question
cold_start(h, active_agent, content, classification) ==
    LET flow == [present |-> TRUE, active |-> TRUE, current_step |-> 0,
                 collected_data |->
                     ("fecha_incidente" :> strftime_iso(WallClockDate)),
                 temp_list_items |-> <<>>, confirmation_step |-> FALSE]
        reply == QuestionReply("first_question", 0)
    IN  TurnResult(add_assistant_message(h, content, "incident"),
                   active_agent, flow, classification, "incident",
                   <<>>, <<>>, 0, <<>>, <<Appended(reply, "incident")>>, reply)

\* lines 291-297: the flow is active, call the handler
continue_flow(h, active_agent, flow, content, classification, message, page_outcome) ==
    LET r == handle_incident_flow(flow, message, page_outcome)
        appended == [i \in 1..Len(r.appended) |->
                        Appended(r.appended[i], "incident")]
    IN  TurnResult(add_assistant_messages(h, content, appended),
                   active_agent, r.flow, classification, "incident",
                   <<>>, <<>>, 1, r.page_calls, appended, r.reply)

\* content is the ordinal of the user entry this call appends
process_message_sync(history, active_agent, flow, content, message, classifier_run, out1, out2, page_outcome) ==
    IF message = CLEANUP_SIGNAL
    THEN [TurnResult(history, active_agent, flow, "none", "none", <<>>, <<>>,
                     0, <<>>, <<>>, PlainReply("cleanup"))
             EXCEPT !.classifier_calls = 0]
    ELSE
    LET h == add_user_message(history, content)
        classification == classify_query(classifier_run)
        initial_agent_name ==
            determine_agent_with_context(active_agent, classification)
    IN  IF initial_agent_name \in {"jira", "confluence"}
        THEN delegate(h, flow, content + 1, classification,
                      initial_agent_name, out1, out2)
        ELSE IF initial_agent_name = "incident"
        THEN IF ~FlowActive(flow)
             THEN cold_start(h, active_agent, content + 1, classification)
             ELSE continue_flow(h, active_agent, flow, content + 1,
                                classification, message, page_outcome)
        ELSE LET reply == PlainReply("unknown_agent")
             IN  TurnResult(add_assistant_message(h, content + 1, "orchestrator"),
                            active_agent, flow, classification,
                            initial_agent_name, <<>>, <<>>, 0, <<>>,
                            <<Appended(reply, "orchestrator")>>, reply)

(***************************************************************************)
(* The user's side of the incident dialogue.                               *)
(* script.pos is 0 when no dialogue is in progress, k in 1..10 when the    *)
(* flow has been started and the user has then answered the first k-1      *)
(* questions of TEMPLATE_CONFIG, in order and in consecutive turns, each   *)
(* with a valid value; 11 when all ten are answered; 12 when the user has  *)
(* then confirmed.  page_calls counts the page-creation calls made since   *)
(* the start, page_raised records that such a call raised.                 *)
(***************************************************************************)
NoScript == [pos |-> 0, page_calls |-> 0, page_raised |-> FALSE]

ScriptDone == Len(TEMPLATE_CONFIG) + 2

\* a valid value for question `step` (0-based): a non-empty text, one of
\* the options, a date _parse_date accepts, a "none" keyword for a list
ValidAnswer(step, message) ==
    LET config == TEMPLATE_CONFIG[step + 1]
    IN  /\ ~InList(Lower(message), CancelKeywords)
        /\ CASE config.type \in {"text", "multiline_text"} ->
                    Strip(message) # <<>>
             [] config.type = "choice" -> InList(message, config.options)
             [] config.type = "date_text" -> parse_date(message) # NoText
             [] OTHER -> InList(Lower(message), NoneKeywords)

\* the user's position after a call with result r
ScriptStep(script, message, r) ==
    IF r.reply.kind = "first_question"
    THEN [NoScript EXCEPT !.pos = 1]
    ELSE IF /\ script.pos \in 1..Len(TEMPLATE_CONFIG)
            /\ ValidAnswer(script.pos - 1, message)
    THEN [script EXCEPT !.pos = @ + 1,
                        !.page_calls = @ + Len(r.page_calls)]
    ELSE IF /\ script.pos = Len(TEMPLATE_CONFIG) + 1
            /\ InList(Lower(message), AffirmativeKeywords)
    THEN [pos |-> ScriptDone,
          page_calls |-> script.page_calls + Len(r.page_calls),
          page_raised |-> r.reply.kind = "page_error"]
    ELSE NoScript

(***************************************************************************)
(* The working memory of the Task Agents and their reference resolvers     *)
(* (ConfluenceAgent and JiraAgent tools).                                  *)
(***************************************************************************)
\* first position of TRUE in a sequence of booleans, 0 when there is none
FirstIndex(flags) ==
    LET hits == {i \in 1..Len(flags) : flags[i]}
    IN  IF hits = {} THEN 0 ELSE CHOOSE i \in hits : \A j \in hits : i <= j

\* position after the run of \s characters that starts at position j
RECURSIVE SkipSpaces(_, _)
SkipSpaces(s, j) ==
    IF j <= Len(s) /\ s[j] \in Whitespace THEN SkipSpaces(s, j + 1) ELSE j

\* position after the run of \d characters that starts at position j
RECURSIVE DigitsEnd(_, _)
DigitsEnd(s, j) ==
    IF j <= Len(s) /\ IsDigit(s[j]) THEN DigitsEnd(s, j + 1) ELSE j

\* the match of (?:p1|p2|...)\s*(\d+) that starts at position i, trying the
\* prefixes from the k-th on: the digits of group 1, <<>> for no match
RECURSIVE NumberAfterPrefixAt(_, _, _, _)
NumberAfterPrefixAt(s, i, prefixes, k) ==
    IF k > Len(prefixes) THEN <<>>
    ELSE LET p == prefixes[k]
             d == SkipSpaces(s, i + Len(p))
             e == DigitsEnd(s, d)
         IN  IF /\ i + Len(p) - 1 <= Len(s)
                /\ SubSeq(s, i, i + Len(p) - 1) = p
                /\ e > d
             THEN SubSeq(s, d, e - 1)
             ELSE NumberAfterPrefixAt(s, i, prefixes, k + 1)

\* re.search(r'(?:p1|p2|...)\s*(\d+)', s).group(1): the leftmost match,
\* <<>> when re.search gives None
RECURSIVE NumberAfterPrefixFrom(_, _, _)
NumberAfterPrefixFrom(s, i, prefixes) ==
    IF i > Len(s) THEN <<>>
    ELSE LET found == NumberAfterPrefixAt(s, i, prefixes, 1)
         IN  IF found # <<>> THEN found
             ELSE NumberAfterPrefixFrom(s, i + 1, prefixes)

NumberAfterPrefix(s, prefixes) == NumberAfterPrefixFrom(s, 1, prefixes)

\* some text of the list is contained in s: re.search(r'(a|b|c)', s)
ContainsAny(s, words) == \E k \in 1..Len(words) : IsSubstr(words[k], s)

\* index is None
NoIndex == -1

\* ------------------------------ Confluence ------------------------------
\* context.get("filtered_results_info", {}) before any smart search
NoFilteredInfo ==
    [relevant_results |-> 0, irrelevant_results |-> 0, irrelevant_titles |-> <<>>]

\* "current_page": None
NoCurrentPage == [id |-> 0, title |-> <<>>]

\* the context dictionary ConfluenceAgent.__init__ creates
ConfluenceContext ==
    [last_search_results |-> <<>>, filtered_results_info |-> NoFilteredInfo,
     current_page |-> NoCurrentPage]

\* "page": None
NoPage == [index |-> 0, id |-> 0, title |-> <<>>, is_relevant |-> TRUE]

irrelevant_keywords ==
    << <<"s","p","r","i","n","t"," ","g","o","a","l">>, <<"s","p","r","i","n","t"," ","p","l","a","n","n","i","n","g">>, <<"s","p","r","i","n","t"," ","r","e","v","i","e","w">>,
       <<"s","p","r","i","n","t"," ","r","e","t","r","o">>, <<"d","a","i","l","y"," ","s","c","r","u","m">> >>

\* variant: looks for the keywords in the title as it is written
is_primarily_sprint_case_sensitive(title) == ContainsAny(title, irrelevant_keywords)

\* is_primarily_sprint of smart_search
is_primarily_sprint(title) == ContainsAny(Lower(title), irrelevant_keywords)

\* the elements of xs whose flag is TRUE, in order
RECURSIVE Keep(_, _)
Keep(xs, flags) ==
    IF xs = <<>> THEN <<>>
    ELSE (IF Head(flags) THEN <<Head(xs)>> ELSE <<>>) \o Keep(Tail(xs), Tail(flags))

\* the relevant results and the others, in order
RelevantOf(results) ==
    Keep(results, [i \in 1..Len(results) |-> results[i].is_relevant])

IrrelevantOf(results) ==
    Keep(results, [i \in 1..Len(results) |-> ~results[i].is_relevant])

\* [r.get("title") for r in results]
Titles(results) == [i \in 1..Len(results) |-> results[i].title]

\* What the client call of a search gives: it raises, or it returns a list
\* of results (each with the id and the title Confluence gives it).
ClientRaises == [raises |-> TRUE, results |-> <<>>]

ClientReturns(results) == [raises |-> FALSE, results |-> results]

\* formatted_result["index"] = len(formatted_results) + 1 on each append
\* to the relevant results
Renumbered(results) ==
    [k \in 1..Len(results) |-> [results[k] EXCEPT !.index = k]]

\* ConfluenceAgent.smart_search: the context it leaves, and its result
smart_search(context, client) ==
    IF client.raises \/ client.results = <<>>
    THEN [context |-> context, success |-> FALSE, results |-> <<>>,
          all_results |-> <<>>]
    ELSE LET formatted ==
                 [i \in 1..Len(client.results) |->
                     [index |-> i,
                      id |-> client.results[i].id,
                      title |-> client.results[i].title,
                      is_relevant |-> ~is_primarily_sprint(client.results[i].title)]]
             formatted_results == Renumbered(RelevantOf(formatted))
             irrelevant_results == IrrelevantOf(formatted)
         IN  [context |->
                 [context EXCEPT
                    !.last_search_results = formatted_results \o irrelevant_results,
                    !.filtered_results_info =
                       [relevant_results |-> Len(formatted_results),
                        irrelevant_results |-> Len(irrelevant_results),
                        irrelevant_titles |-> Titles(irrelevant_results)]],
              success |-> TRUE,
              results |-> formatted_results,
              all_results |-> formatted_results \o irrelevant_results]

\* ConfluenceAgent.search_content: the results carry no "is_relevant" key,
\* which result.get("is_relevant", True) reads as True
search_content(context, client) ==
    IF client.raises \/ client.results = <<>>
    THEN [context |-> context, success |-> FALSE, results |-> <<>>]
    ELSE LET formatted_results ==
                 [i \in 1..Len(client.results) |->
                     [index |-> i,
                      id |-> client.results[i].id,
                      title |-> client.results[i].title,
                      is_relevant |-> TRUE]]
         IN  [context |-> [context EXCEPT !.last_search_results = formatted_results],
              success |-> TRUE,
              results |-> formatted_results]

\* the prefixes of the option pattern of get_page_by_reference
ConfluenceOptionPrefixes ==
    << <<"o","p","c","i","o_acute","n">>, <<"o","p","c","i","o","n">>, <<"n","u","m","e","r","o">>, <<"n","u_acute","m","e","r","o">>, <<"#">>, <<"i","t","e","m">>, <<"i_acute","t","e","m">> >>

\* ordinal_map of get_page_by_reference, in insertion order
ordinal_map ==
    << [stem |-> <<"p","r","i","m","e","r">>, value |-> 1], [stem |-> <<"s","e","g","u","n","d">>, value |-> 2],
       [stem |-> <<"t","e","r","c","e","r">>, value |-> 3], [stem |-> <<"c","u","a","r","t">>, value |-> 4],
       [stem |-> <<"q","u","i","n","t">>, value |-> 5], [stem |-> <<"s","e","x","t">>, value |-> 6],
       [stem |-> <<"s","e_acute","p","t","i","m">>, value |-> 7], [stem |-> <<"s","e","p","t","i","m">>, value |-> 7],
       [stem |-> <<"o","c","t","a","v">>, value |-> 8], [stem |-> <<"n","o","v","e","n">>, value |-> 9],
       [stem |-> <<"d","e_acute","c","i","m">>, value |-> 10] >>

\* the loop over filtered_titles: the position in last_results of the page
\* the reference asks for by a filtered title (or by "sprint" and "goal"),
\* 0 when the loop ends without returning
FilteredTitleRequest(context, ref) ==
    LET titles == context.filtered_results_info.irrelevant_titles
        last_results == context.last_search_results
        HasTitle(i, t) == Lower(last_results[i].title) = Lower(titles[t])
        Asked(t) ==
            /\ \/ IsSubstr(Lower(titles[t]), ref)
               \/ IsSubstr(<<"s","p","r","i","n","t">>, ref) /\ IsSubstr(<<"g","o","a","l">>, ref)
            /\ \E i \in 1..Len(last_results) : HasTitle(i, t)
        t0 == FirstIndex([q \in 1..Len(titles) |-> Asked(q)])
    IN  IF t0 = 0 THEN 0
        ELSE FirstIndex([i \in 1..Len(last_results) |-> HasTitle(i, t0)])

\* index after the option pattern and the ordinal loop
ReferenceIndex(ref) ==
    LET option_match == NumberAfterPrefix(ref, ConfluenceOptionPrefixes)
        o == FirstIndex([k \in 1..Len(ordinal_map) |-> IsSubstr(ordinal_map[k].stem, ref)])
    IN  IF o # 0 THEN ordinal_map[o].value
        ELSE IF option_match # <<>> THEN ToNumber(option_match)
        ELSE NoIndex

\* the result of get_page_by_reference; was_filtered is FALSE where the
\* result has no such key
PageResult(page, was_filtered) ==
    [success |-> TRUE, page |-> page, was_filtered |-> was_filtered]

PageNotFound == [success |-> FALSE, page |-> NoPage, was_filtered |-> FALSE]

\* variant: reads the option number as a position counted from 0
SelectByIndex_zero_based(last_results, index) ==
    LET relevant_results == RelevantOf(last_results)
    IN  IF index = NoIndex THEN <<>>
        ELSE IF 0 <= index /\ index < Len(relevant_results)
             THEN <<PageResult(relevant_results[index + 1], FALSE)>>
        ELSE IF 0 <= index /\ index < Len(last_results)
             THEN <<PageResult(last_results[index + 1], ~last_results[index + 1].is_relevant)>>
        ELSE <<>>

\* the branch `if index is not None`: <<result>> when it returns, <<>> when
\* the code goes on to the title match
SelectByIndex(last_results, index) ==
    LET relevant_results == RelevantOf(last_results)
    IN  IF index = NoIndex THEN <<>>
        ELSE IF 1 <= index /\ index <= Len(relevant_results)
             THEN <<PageResult(relevant_results[index], FALSE)>>
        ELSE IF 1 <= index /\ index <= Len(last_results)
             THEN <<PageResult(last_results[index], ~last_results[index].is_relevant)>>
        ELSE <<>>

\* variant: answers with the first result when nothing matches
SelectByTitle_guessing(last_results, ref) ==
    LET Matches(i) == \/ IsSubstr(Lower(last_results[i].title), ref)
                      \/ IsSubstr(ref, Lower(last_results[i].title))
        i0 == FirstIndex([q \in 1..Len(last_results) |-> Matches(q)])
    IN  IF i0 = 0 THEN PageResult(last_results[1], ~last_results[1].is_relevant)
        ELSE PageResult(last_results[i0], ~last_results[i0].is_relevant)

\* the title match that ends get_page_by_reference
SelectByTitle(last_results, ref) ==
    LET Matches(i) == \/ IsSubstr(Lower(last_results[i].title), ref)
                      \/ IsSubstr(ref, Lower(last_results[i].title))
        i0 == FirstIndex([q \in 1..Len(last_results) |-> Matches(q)])
    IN  IF i0 = 0 THEN PageNotFound
        ELSE PageResult(last_results[i0], ~last_results[i0].is_relevant)

\* ConfluenceAgent.get_page_by_reference
get_page_by_reference(context, reference) ==
    LET last_results == context.last_search_results
        filtered_info == context.filtered_results_info
        ref == Lower(reference)
        by_title == FilteredTitleRequest(context, ref)
        first_filtered == FirstIndex([i \in 1..Len(last_results) |-> ~last_results[i].is_relevant])
        option_index == ReferenceIndex(ref)
        index == IF option_index = NoIndex /\ Strip(reference) # <<>>
                                           /\ AllDigits(Strip(reference))
                 THEN ToNumber(Strip(reference))
                 ELSE option_index
    IN  IF last_results = <<>> THEN PageNotFound
        ELSE IF by_title # 0 THEN PageResult(last_results[by_title], TRUE)
        ELSE IF /\ IsSubstr(<<"o","t","r","a">>, ref)
                /\ filtered_info.irrelevant_results > 0
                /\ first_filtered # 0
             THEN PageResult(last_results[first_filtered], TRUE)
        ELSE IF /\ \/ IsSubstr(<<"n","o"," ","r","e","l","e","v","a","n","t","e">>, ref)
                   \/ IsSubstr(<<"f","i","l","t","r","a","d","a">>, ref)
                   \/ IsSubstr(<<"s","p","r","i","n","t">>, ref)
                /\ first_filtered # 0
             THEN PageResult(last_results[first_filtered], TRUE)
        ELSE IF SelectByIndex(last_results, index) # <<>>
             THEN SelectByIndex(last_results, index)[1]
        ELSE SelectByTitle(last_results, ref)

\* ConfluenceAgent.remember_current_page: the context it leaves, its result
remember_current_page(context, page_id, title) ==
    LET current_page == [id |-> page_id, title |-> title]
    IN  [context |-> [context EXCEPT !.current_page = current_page],
         result |-> [success |-> TRUE, message |-> "text", page |-> current_page]]

\* ConfluenceAgent.get_current_page
get_current_page(context) ==
    IF context.current_page # NoCurrentPage
    THEN [success |-> TRUE, message |-> "text", page |-> context.current_page]
    ELSE [success |-> FALSE, message |-> "text", page |-> NoCurrentPage]

\* What the client call of a get-details tool gives: the item, nothing
\* (None), or an exception.
DetailOutcomes == {"found", "missing", "raise"}

\* ConfluenceAgent.get_page_details; page is what get_page_by_id gives for
\* page_id when it gives one
get_page_details(context, page_id, page, outcome) ==
    IF outcome = "found"
    THEN [context |-> remember_current_page(context, page_id, page.title).context,
          result |-> [success |-> TRUE, message |-> "text",
                      page |-> [id |-> page.id, title |-> page.title]]]
    ELSE [context |-> context,
          result |-> [success |-> FALSE, message |-> "text",
                      page |-> NoCurrentPage]]

\* the tool create_incident_page of ConfluenceAgent, called with a record
\* that has the required fields: the client creates the page ("found"),
\* answers success = False ("missing"), or raises
confluence_create_incident_page(context, page, outcome) ==
    IF outcome = "found"
    THEN [context |-> remember_current_page(context, page.id, page.title).context,
          result |-> [success |-> TRUE, message |-> "text"]]
    ELSE IF outcome = "missing"
    THEN [context |-> context, result |-> [success |-> FALSE, message |-> "text"]]
    ELSE [context |-> context,
          result |-> [success |-> FALSE, error |-> "text", message |-> "text"]]

\* --------------------------------- Jira ---------------------------------
\* "current_issue": None
NoCurrentIssue == <<>>

\* the context dictionary JiraAgent.__init__ creates
JiraContext == [last_search_results |-> <<>>, current_issue |-> NoCurrentIssue]

\* JiraAgent.remember_current_issue
remember_current_issue(context, issue_key) ==
    [context |-> [context EXCEPT !.current_issue = issue_key],
     result |-> [success |-> TRUE, message |-> "text", issue_key |-> issue_key]]

\* JiraAgent.get_current_issue
get_current_issue(context) ==
    IF Truthy(context.current_issue)
    THEN [success |-> TRUE, issue_key |-> context.current_issue]
    ELSE [success |-> FALSE, error |-> "text"]

\* JiraAgent.get_issue_details; issue is what the client gives for the key
get_issue_details(context, issue, outcome) ==
    IF outcome = "found"
    THEN [context |-> context,
          result |-> [success |-> TRUE,
                      issue |-> [key |-> issue.key, summary |-> issue.summary]]]
    ELSE [context |-> context, result |-> [success |-> FALSE, error |-> "text"]]

\* JiraAgent.get_my_issues / search_issues: the list the client returns
\* replaces last_search_results, empty or not
search_issues(context, client) ==
    IF client.raises
    THEN [context |-> context, success |-> FALSE, results |-> <<>>]
    ELSE [context |-> [context EXCEPT !.last_search_results = client.results],
          success |-> TRUE,
          results |-> client.results]

\* the optional prefixes of the option pattern of get_issue_by_reference;
\* the empty text is the prefix left out
JiraOptionPrefixes ==
    << <<"o","p","c","i","o_acute","n">>, <<"o","p","c","i","o","n">>, <<"o","p","t","i","o","n">>, <<"n","u_acute","m","e","r","o">>, <<"n","u","m","e","r","o">>, <<"n","u","m","b","e","r">>, <<>> >>

IssueResult(issue) ==
    [success |-> TRUE, issue_key |-> issue.key, summary |-> issue.summary]

IssueNotFound == [success |-> FALSE, issue_key |-> <<>>, summary |-> <<>>]

\* JiraAgent.get_issue_by_reference
get_issue_by_reference(context, reference) ==
    LET last_results == context.last_search_results
        ref == Lower(reference)
        option_match == NumberAfterPrefix(ref, JiraOptionPrefixes)
        first_match == ContainsAny(ref, << <<"p","r","i","m","e","r","a">>, <<"p","r","i","m","e","r">>, <<"f","i","r","s","t">> >>)
        last_match == ContainsAny(ref, << <<"u_acute","l","t","i","m","a">>, <<"u","l","t","i","m","o">>, <<"l","a","s","t">> >>)
        by_text == FirstIndex([i \in 1..Len(last_results) |-> \/ IsSubstr(ref, Lower(last_results[i].summary))
                                         \/ IsSubstr(ref, Lower(last_results[i].key))])
        selected_index ==
            IF option_match # <<>>
            THEN (IF 1 <= ToNumber(option_match)
                     /\ ToNumber(option_match) <= Len(last_results)
                  THEN ToNumber(option_match) ELSE 0)
            ELSE IF first_match THEN 1
            ELSE IF last_match THEN Len(last_results)
            ELSE by_text
    IN  IF last_results = <<>> \/ selected_index = 0 THEN IssueNotFound
        ELSE IssueResult(last_results[selected_index])

\* ------------------- operations that call the REST client ---------------
\* A result dictionary is a record of its keys; the texts of messages are
\* not told apart.
\* the tools of JiraAgent that call jira_client, other than the searches
JiraOperations ==
    { "add_comment", "get_current_time_tracking",
      "get_issue_worklogs", "add_worklog", "get_issue_transitions",
      "transition_issue", "get_my_worklogs_for_date" }

\* the tools of ConfluenceAgent that call confluence_client, other than the
\* searches
ConfluenceOperations ==
    { "get_spaces", "get_space_content", "get_page_by_title" }

\* What a tool of JiraAgent returns when its call of the client raises
\* (raises = TRUE) and when the client answers: the except branch of the
\* tool, or its last return.  add_worklog is called with a duration and a
\* date that parse.
jira_operation(name, raises) ==
    IF name = "get_my_worklogs_for_date"
    THEN (IF raises THEN [response |-> "text"]
          ELSE [markdown_output |-> "text", use_directly |-> TRUE])
    ELSE IF name = "get_current_time_tracking"
    THEN (IF raises THEN [issue_key |-> "text", success |-> FALSE, error |-> "text"]
          ELSE [issue_key |-> "text", success |-> TRUE])
    ELSE (IF raises THEN [success |-> FALSE, error |-> "text"]
          ELSE [success |-> TRUE])

\* the same for the tools of ConfluenceAgent
confluence_operation(name, raises) ==
    IF name = "get_page_by_title"
    THEN (IF raises THEN [found |-> FALSE, error |-> "text", message |-> "text"]
          ELSE [found |-> TRUE, message |-> "text"])
    ELSE (IF raises THEN [success |-> FALSE, message |-> "text"]
          ELSE [success |-> TRUE, message |-> "text"])

(***************************************************************************)
(* The Time Normalizer of the Jira agent: durations and date descriptions. *)
(***************************************************************************)
\* a parser returned None
None == -1

\* str.replace(old, new) for one-character texts
Replace(s, old, new) == [i \in 1..Len(s) |-> IF s[i] = old THEN new ELSE s[i]]

\* position after the longest match of \d+\.?\d* that starts at position i,
\* i itself when s has no digit there.  Only the longest match can be
\* followed by a space or a unit letter, so it is the one the search uses.
NumberEnd(s, i) ==
    LET e == DigitsEnd(s, i)
    IN  IF e = i THEN i
        ELSE IF e <= Len(s) /\ s[e] = "." THEN DigitsEnd(s, e + 1)
        ELSE e

\* position after an optional letter at position k
SkipLetter(s, k, letter) == IF k <= Len(s) /\ s[k] = letter THEN k + 1 ELSE k

\* position after the match of \s*h(?:ora?s?)? (unit "h": stem "or", then
\* an optional "a", then an optional "s") or of \s*m(?:inuto?s?)? (unit "m":
\* stem "inut", then an optional "o", then an optional "s") that starts at
\* position j; 0 when the unit letter is not there
UnitEnd(s, j, unit) ==
    LET u == SkipSpaces(s, j)
        stem == IF unit = "h" THEN <<"o","r">> ELSE <<"i","n","u","t">>
        vowel == IF unit = "h" THEN "a" ELSE "o"
        k == u + 1
    IN  IF ~(u <= Len(s) /\ s[u] = unit) THEN 0
        ELSE IF k + Len(stem) - 1 <= Len(s) /\ SubSeq(s, k, k + Len(stem) - 1) = stem
             THEN SkipLetter(s, SkipLetter(s, k + Len(stem), vowel), "s")
        ELSE k

\* float(text) in thousandths, for digits with at most three decimals
Thousandths(text) ==
    LET e == DigitsEnd(text, 1)
        frac == IF e < Len(text) THEN SubSeq(text, e + 1, Len(text)) ELSE <<>>
        padded == SubSeq(frac \o <<"0","0","0">>, 1, 3)
    IN  1000 * ToNumber(SubSeq(text, 1, e - 1)) + ToNumber(padded)

\* round(x) for x given in thousandths: to the nearest integer, a half to
\* the even one
Round(thousandths) ==
    LET q == thousandths \div 1000
        r == thousandths % 1000
    IN  IF r < 500 THEN q
        ELSE IF r > 500 THEN q + 1
        ELSE IF q % 2 = 0 THEN q ELSE q + 1

NoMatch == [matched |-> FALSE, hours |-> <<>>, minutes |-> <<>>]

\* the match of the three alternatives of match_hm that starts at position
\* i: "X h Y m", then "X h", then "Y m"
MatchAt(s, i) ==
    LET n1 == NumberEnd(s, i)
        h == UnitEnd(s, n1, "h")
        d == IF h = 0 THEN 0 ELSE SkipSpaces(s, h)
        n2 == IF h = 0 THEN 0 ELSE NumberEnd(s, d)
        m2 == IF h = 0 \/ n2 = d THEN 0 ELSE UnitEnd(s, n2, "m")
        m == UnitEnd(s, n1, "m")
    IN  IF n1 = i THEN NoMatch
        ELSE IF m2 # 0
             THEN [matched |-> TRUE, hours |-> SubSeq(s, i, n1 - 1),
                   minutes |-> SubSeq(s, d, n2 - 1)]
        ELSE IF h # 0
             THEN [matched |-> TRUE, hours |-> SubSeq(s, i, n1 - 1), minutes |-> <<>>]
        ELSE IF m # 0
             THEN [matched |-> TRUE, hours |-> <<>>, minutes |-> SubSeq(s, i, n1 - 1)]
        ELSE NoMatch

\* re.search(match_hm pattern, s): the match at the leftmost position
RECURSIVE SearchFrom(_, _)
SearchFrom(s, i) ==
    IF i > Len(s) THEN NoMatch
    ELSE LET found == MatchAt(s, i)
         IN  IF found.matched THEN found ELSE SearchFrom(s, i + 1)

\* re.search(r'(\d+\.?\d*)', s).group(1), <<>> for no match
FirstNumber(s) ==
    LET i == FirstIndex([k \in 1..Len(s) |-> IsDigit(s[k])])
    IN  IF i = 0 THEN <<>> ELSE SubSeq(s, i, NumberEnd(s, i) - 1)

\* float(text) of the last branch, in thousandths: an optional sign, digits
\* and at most one point; a ValueError is <<>>, a value is <<thousandths>>
Float(text) ==
    LET t == Strip(text)
        signed == t # <<>> /\ Head(t) \in {"-", "+"}
        body == IF signed THEN Tail(t) ELSE t
    IN  IF body # <<>> /\ IsDigit(Head(body)) /\ NumberEnd(body, 1) = Len(body) + 1
        THEN <<(IF signed /\ Head(t) = "-" THEN -1 ELSE 1) * Thousandths(body)>>
        ELSE <<>>

\* total_minutes of _parse_time_str_to_seconds for the text after lower()
\* and the replacement of commas; <<>> where the function returns None at
\* the ValueError
TotalMinutes(s) ==
    LET match_hm == SearchFrom(s, 1)
        hours == IF match_hm.hours = <<>> THEN 0 ELSE Thousandths(match_hm.hours)
        minutes == IF match_hm.minutes = <<>> THEN 0 ELSE Thousandths(match_hm.minutes)
    IN  IF match_hm.matched THEN <<Round(hours * 60 + minutes)>>
        ELSE IF IsSubstr(<<"h","o","r","a">>, s) \/ IsSubstr(<<" ","h">>, s)
             THEN (IF FirstNumber(s) = <<>> THEN <<0>>
                   ELSE <<Round(Thousandths(FirstNumber(s)) * 60)>>)
        ELSE IF IsSubstr(<<"m","i","n","u","t","o">>, s) \/ IsSubstr(<<" ","m","i","n">>, s) \/ IsSubstr(<<" ","m">>, s)
             THEN (IF FirstNumber(s) = <<>> THEN <<0>>
                   ELSE <<Round(Thousandths(FirstNumber(s)))>>)
        ELSE IF Float(s) = <<>> THEN <<>>
        ELSE <<Round(Float(s)[1])>>

\* the end of _parse_time_str_to_seconds: None for no total or a total that
\* is not positive, the seconds otherwise
SecondsOf(total_minutes) ==
    IF total_minutes = <<>> THEN None
    ELSE IF total_minutes[1] <= 0 THEN None
    ELSE total_minutes[1] * 60

\* variant: reads the text without replacing the decimal comma
parse_time_str_to_seconds_dot_only(time_str) == SecondsOf(TotalMinutes(Lower(time_str)))

\* JiraAgent._parse_time_str_to_seconds
parse_time_str_to_seconds(time_str) == SecondsOf(TotalMinutes(Replace(Lower(time_str), ",", ".")))

\* date.toordinal(): days since 0001-01-01, that day being 1
RECURSIVE DaysBeforeMonth(_, _)
DaysBeforeMonth(y, m) ==
    IF m = 1 THEN 0 ELSE DaysBeforeMonth(y, m - 1) + DaysInMonth(y, m - 1)

toordinal(dt) ==
    LET p == dt.y - 1
    IN  p * 365 + (p \div 4) - (p \div 100) + (p \div 400)
        + DaysBeforeMonth(dt.y, dt.m) + dt.d

\* date.weekday(): Monday is 0, Sunday is 6
weekday(dt) == (toordinal(dt) + 6) % 7

\* date - timedelta(days=n), n >= 0
RECURSIVE minus_days(_, _)
minus_days(dt, n) == IF n = 0 THEN dt ELSE minus_days(minus_one_day(dt), n - 1)

\* date + timedelta(days=1)
plus_one_day(dt) ==
    IF dt.d < DaysInMonth(dt.y, dt.m) THEN [dt EXCEPT !.d = dt.d + 1]
    ELSE IF dt.m < 12 THEN [y |-> dt.y, m |-> dt.m + 1, d |-> 1]
    ELSE [y |-> dt.y + 1, m |-> 1, d |-> 1]

\* date + timedelta(days=n) for any integer n
RECURSIVE plus_days(_, _)
plus_days(dt, n) ==
    IF n < 0 THEN minus_days(dt, 0 - n)
    ELSE IF n = 0 THEN dt
    ELSE plus_days(plus_one_day(dt), n - 1)

\* days_of_week, in insertion order
days_of_week ==
    << [name |-> <<"l","u","n","e","s">>, index |-> 0], [name |-> <<"m","a","r","t","e","s">>, index |-> 1],
       [name |-> <<"m","i","e_acute","r","c","o","l","e","s">>, index |-> 2], [name |-> <<"m","i","e","r","c","o","l","e","s">>, index |-> 2],
       [name |-> <<"j","u","e","v","e","s">>, index |-> 3], [name |-> <<"v","i","e","r","n","e","s">>, index |-> 4],
       [name |-> <<"s","a_acute","b","a","d","o">>, index |-> 5], [name |-> <<"s","a","b","a","d","o">>, index |-> 5],
       [name |-> <<"d","o","m","i","n","g","o">>, index |-> 6] >>

\* s starts with the text p followed by white space: s without both,
\* <<s>> otherwise
DropLeading(s, words) ==
    LET k == FirstIndex([j \in 1..Len(words) |-> /\ Len(words[j]) < Len(s)
                                   /\ SubSeq(s, 1, Len(words[j])) = words[j]
                                   /\ s[Len(words[j]) + 1] \in Whitespace])
    IN  IF k = 0 THEN s
        ELSE SubSeq(s, SkipSpaces(s, Len(words[k]) + 1), Len(s))

\* s without a final "del", or without a final "de" and the white space
\* before it
DropTrailing(s) ==
    LET n == Len(s)
    IN  IF n >= 3 /\ SubSeq(s, n - 1, n) = <<"d","e">> /\ s[n - 2] \in Whitespace
        THEN RStrip(SubSeq(s, 1, n - 2))
        ELSE IF n >= 3 /\ SubSeq(s, n - 2, n) = <<"d","e","l">>
        THEN SubSeq(s, 1, n - 3)
        ELSE s

\* re.sub(r'^(el|la|los|las|de|del)\s+|(\s+de|del)$', '', desc).strip()
without_articles(desc) ==
    Strip(DropTrailing(DropLeading(desc, << <<"e","l">>, <<"l","a">>, <<"l","o","s">>, <<"l","a","s">>, <<"d","e">>, <<"d","e","l">> >>)))

\* variant: "days_ago" stays 0 when today is the day asked for
days_ago_same_day(today, target_day) == (weekday(today) - target_day + 7) % 7

\* days_ago of the branch "pasado" / "pasada"
days_ago(today, target_day) ==
    IF (weekday(today) - target_day + 7) % 7 = 0 THEN 7
    ELSE (weekday(today) - target_day + 7) % 7

\* JiraAgent._parse_date_description_to_date_obj with today the date of
\* context['current_date']; NoDate is None.  The format with the name of a
\* month, which depends on the locale, is left out: the model gives the
\* function no text with a month name.
parse_date_description_to_date_obj(date_description, today) ==
    LET desc_lower == without_articles(Strip(Lower(date_description)))
        named == FirstIndex([k \in 1..Len(days_of_week) |-> IsSubstr(days_of_week[k].name, desc_lower)])
        cleaned_desc == Strip(IF IsSubstr(<<"e","s","t","e"," ">>, desc_lower) /\ SubSeq(desc_lower, 1, 5) = <<"e","s","t","e"," ">>
                              THEN SubSeq(desc_lower, 6, Len(desc_lower))
                              ELSE desc_lower)
        exact == FirstIndex([k \in 1..Len(days_of_week) |-> days_of_week[k].name = cleaned_desc])
    IN  IF desc_lower = <<"h","o","y">> THEN today
        ELSE IF desc_lower = <<"a","y","e","r">> THEN minus_days(today, 1)
        ELSE IF desc_lower = <<"a","n","t","e","a","y","e","r">> THEN minus_days(today, 2)
        ELSE IF (IsSubstr(<<"p","a","s","a","d","o">>, desc_lower) \/ IsSubstr(<<"p","a","s","a","d","a">>, desc_lower))
                /\ named # 0
             THEN minus_days(today, days_ago(today, days_of_week[named].index))
        ELSE IF Len(desc_lower) = 10 /\ strptime(desc_lower, "-", TRUE) # NoDate
             THEN strptime(desc_lower, "-", TRUE)
        ELSE IF strptime(desc_lower, "/", FALSE) # NoDate
             THEN strptime(desc_lower, "/", FALSE)
        ELSE IF exact # 0
             THEN plus_days(today, days_of_week[exact].index - weekday(today))
        ELSE NoDate

\* None as the "started" of a worklog
NoStarted == <<>>

\* strftime("%z") of the local time zone: one of the zones of the model
UtcOffsets == { <<"+","0","0","0","0">>, <<"-","0","3","0","0">> }

\* the end of _parse_date_str_to_jira_started_format: noon of the parsed
\* date in the local time zone, NoStarted for no date
jira_started_format(parsed_date, utc_offset) ==
    IF parsed_date # NoDate
    THEN strftime_iso(parsed_date) \o <<"T","1","2",":","0","0",":","0","0",".","0","0","0">> \o utc_offset
    ELSE NoStarted

\* variant: the timestamp is built from the reference date
parse_date_str_to_jira_started_format_today(date_str, today, utc_offset) ==
    jira_started_format(IF parse_date_description_to_date_obj(date_str, today) # NoDate
                        THEN today ELSE NoDate, utc_offset)

\* JiraAgent._parse_date_str_to_jira_started_format
parse_date_str_to_jira_started_format(date_str, today, utc_offset) ==
    jira_started_format(parse_date_description_to_date_obj(date_str, today), utc_offset)

\* the texts for which _parse_time_str_to_seconds raises: none of the unit
\* patterns applies, float() reads an infinity and round() raises
\* OverflowError, which "except ValueError" does not catch
parse_time_raises(time_str) ==
    LET s == Replace(Lower(time_str), ",", ".")
        t == Strip(s)
        body == IF t # <<>> /\ Head(t) \in {"-", "+"} THEN Tail(t) ELSE t
    IN  /\ ~SearchFrom(s, 1).matched
        /\ ~(IsSubstr(<<"h","o","r","a">>, s) \/ IsSubstr(<<" ","h">>, s))
        /\ ~(IsSubstr(<<"m","i","n","u","t","o">>, s) \/ IsSubstr(<<" ","m","i","n">>, s) \/ IsSubstr(<<" ","m">>, s))
        /\ body \in { <<"i","n","f">>, <<"i","n","f","i","n","i","t","y">> }

\* no call of jira_client.add_worklog
NoRestCall == [called |-> FALSE]

\* what jira_client.add_worklog does: returns the worklog, returns nothing,
\* raises
WorklogOutcomes == {"ok", "nothing", "raise"}

\* the body of JiraAgent.add_worklog after the parsers: raised tells that
\* _parse_time_str_to_seconds raised, time_in_sec and started are what the
\* parsers returned (started is NoStarted for an empty date_str too)
worklog_outcome(issue_key, time_str, date_str, raised, time_in_sec, started, client) ==
    IF raised
        THEN [result |-> [success |-> FALSE,
                          error |-> <<"E","r","r","o","r"," ","a","l"," ","a","g","r","e","g","a","r"," ","w","o","r","k","l","o","g"," ","a"," ">> \o issue_key
                                    \o <<":"," ","c","a","n","n","o","t"," ","c","o","n","v","e","r","t"," ","f","l","o","a","t"," ","i","n","f","i","n","i","t","y"," ","t","o"," ","i","n","t","e","g","e","r">>],
              rest_call |-> NoRestCall]
        ELSE IF time_in_sec = None
        THEN [result |-> [success |-> FALSE,
                          error |-> <<"F","o","r","m","a","t","o"," ","d","e"," ","t","i","e","m","p","o"," ","n","o"," ","v","a_acute","l","i","d","o",":"," ","'">> \o time_str \o <<"'">>],
              rest_call |-> NoRestCall]
        ELSE IF date_str # <<>> /\ started = NoStarted
        THEN [result |-> [success |-> FALSE,
                          error |-> <<"F","o","r","m","a","t","o"," ","d","e"," ","f","e","c","h","a"," ","n","o"," ","v","a_acute","l","i","d","o",":"," ","'">> \o date_str \o <<"'">>],
              rest_call |-> NoRestCall]
        ELSE IF client = "ok"
        THEN [result |-> [success |-> TRUE, issue_key |-> issue_key, date |-> date_str],
              rest_call |-> [called |-> TRUE, issue_key |-> issue_key,
                            time_in_sec |-> time_in_sec, started |-> started]]
        ELSE IF client = "nothing"
        THEN [result |-> [success |-> FALSE,
                          error |-> <<"E","r","r","o","r"," ","a","l"," ","a","g","r","e","g","a","r"," ","w","o","r","k","l","o","g"," ","a"," ">> \o issue_key],
              rest_call |-> [called |-> TRUE, issue_key |-> issue_key,
                            time_in_sec |-> time_in_sec, started |-> started]]
        ELSE [result |-> [success |-> FALSE,
                          error |-> <<"E","r","r","o","r"," ","a","l"," ","a","g","r","e","g","a","r"," ","w","o","r","k","l","o","g"," ","a"," ">> \o issue_key
                                    \o <<":"," ","e","r","r","o","r"," ","d","e"," ","r","e","d">>],
              rest_call |-> [called |-> TRUE, issue_key |-> issue_key,
                            time_in_sec |-> time_in_sec, started |-> started]]

\* JiraAgent.add_worklog: the dictionary returned and the call made of
\* jira_client.add_worklog.  An empty date_str stands for "" and for None.
\* The message and the formatted time of the dictionary of a success are
\* left out.
add_worklog(issue_key, time_str, date_str, today, utc_offset, client) ==
    worklog_outcome(issue_key, time_str, date_str,
                    parse_time_raises(time_str),
                    parse_time_str_to_seconds(time_str),
                    IF date_str # <<>>
                    THEN parse_date_str_to_jira_started_format(date_str, today, utc_offset)
                    ELSE NoStarted,
                    client)

(***************************************************************************)
(* The session as a state machine.                                         *)
(***************************************************************************)
VARIABLES
    conversation_history,   \* SharedContext.conversation_history
    active_agent,           \* SharedContext.active_agent ("none" is None)
    incident_flow,          \* SharedContext.metadata["incident_flow"]
    turn,                   \* what the last call of process_message_sync did
    turns,                  \* number of non-cleanup calls so far
    task_turns,             \* number of calls delegated to a Task Agent so far
    user_script,            \* the user's position in the incident dialogue
    confluence_context,     \* ConfluenceAgent._deps.context
    jira_context,           \* JiraAgent._deps.context
    tool,                   \* what the last tool call of a Task Agent did
    normalizer              \* a call of a parser of the Time Normalizer

\* the variables of the orchestrator
session_vars == <<conversation_history, active_agent, incident_flow, turn,
                  turns, task_turns, user_script>>

\* the variables of the Task Agents' tools
agent_vars == <<confluence_context, jira_context, tool, normalizer>>

vars == <<conversation_history, active_agent, incident_flow, turn, turns,
          task_turns, user_script, confluence_context, jira_context, tool,
          normalizer>>

\* no tool has been called
NoTool ==
    [agent |-> "none", name |-> "none", reference |-> <<>>, raises |-> FALSE,
     result |-> [success |-> FALSE]]

\* no parser has been called
NoCall == [fn |-> "none", done |-> FALSE]

\* the user messages of the model
Messages ==
    { <<>>,
      <<"S","i">>,
      <<"n","o">>,
      <<"c","a","n","c","e","l","a","r">>,
      <<"n","i","n","g","u","n","o">>,
      <<"h","o","y">>,
      <<"A","l","t","o">> }

\* the text "registrar incidente"
IncidentRequest ==
    <<"r","e","g","i","s","t","r","a","r"," ","i","n","c","i","d","e","n","t","e">>

\* Messages sent when the orchestrator does not read the text: a cold start
\* (only the classifier reads it) and a message delegated to a Task Agent.
RequestMessages == {IncidentRequest}

TaskMessages == { <<"c","a","n","c","e","l","a","r">>, <<"A","l","t","o">> }

\* further replies to a date question: a relative day and a date written
\* with hyphens, day first
DateReplies ==
    { <<"a","n","t","e","a","y","e","r">>,
      <<"1","9","-","0","5","-","2","0","2","4">> }

\* Messages sent while the flow is active.  A free-text question stores any
\* text as it is, and a list question stores any text that is not a "none"
\* keyword as an item, so one text stands for the others there.
FlowMessages(flow) ==
    IF flow.confirmation_step \/ flow.current_step >= Len(TEMPLATE_CONFIG)
    THEN Messages
    ELSE CASE TEMPLATE_CONFIG[flow.current_step + 1].type
                  \in {"text", "multiline_text"} ->
                  { <<>>, <<"c","a","n","c","e","l","a","r">>, <<"A","l","t","o">> }
           [] TEMPLATE_CONFIG[flow.current_step + 1].type
                  \in {"list_text", "list_structured"} ->
                  { <<>>, <<"c","a","n","c","e","l","a","r">>,
                    <<"n","i","n","g","u","n","o">>, <<"A","l","t","o">> }
           [] TEMPLATE_CONFIG[flow.current_step + 1].type = "date_text" ->
                  Messages \cup DateReplies
           [] OTHER -> Messages

\* the observation of a call kept in `turn`
TurnOf(kind, message, r) ==
    [kind |-> kind, message |-> message,
     classifier_calls |-> r.classifier_calls,
     classification |-> r.classification,
     initial_agent |-> r.initial_agent,
     handle_calls |-> r.handle_calls, handle_results |-> r.handle_results,
     flow_handler_calls |-> r.flow_handler_calls,
     page_calls |-> r.page_calls,
     appended |-> r.appended, reply |-> r.reply, raised |-> r.raised]

NoTurn ==
    [kind |-> "none", message |-> <<>>, classifier_calls |-> 0,
     classification |-> "none", initial_agent |-> "none",
     handle_calls |-> <<>>, handle_results |-> <<>>,
     flow_handler_calls |-> 0, page_calls |-> <<>>,
     appended |-> <<>>, reply |-> NoReply, raised |-> FALSE]

\* OrchestratorAgent.__init__
Init ==
    /\ conversation_history = <<>>
    /\ active_agent = "none"
    /\ incident_flow = NoFlow
    /\ turn = NoTurn
    /\ turns = 0
    /\ task_turns = 0
    /\ user_script = NoScript
    /\ confluence_context = ConfluenceContext
    /\ jira_context = JiraContext
    /\ tool = NoTool
    /\ normalizer = NoCall

\* the agent the call routes to
RoutedAgent(run) ==
    determine_agent_with_context(active_agent, classify_query(run))

\* the call process_message_sync(message) with what its collaborators do
Call(message, run, out1, out2, page_outcome) ==
    \E r \in {process_message_sync(conversation_history, active_agent,
                                   incident_flow, 2 * turns + 1, message,
                                   run, out1, out2, page_outcome)} :
        /\ Len(r.flow.temp_list_items) <= MaxListItems
        /\ conversation_history' = r.history
        /\ active_agent' = r.active_agent
        /\ incident_flow' = r.flow
        /\ turn' = TurnOf(IF message = CLEANUP_SIGNAL THEN "cleanup" ELSE "turn",
                          message, r)
        /\ user_script' = IF message = CLEANUP_SIGNAL THEN user_script
                          ELSE ScriptStep(user_script, message, r)
        /\ UNCHANGED agent_vars

\* the page-creation call is reached only by an affirmative reply to the
\* confirmation question
ReachesPageCreation(message) ==
    /\ FlowActive(incident_flow)
    /\ incident_flow.confirmation_step
    /\ InList(Lower(message), AffirmativeKeywords)

\* a message routed to the Jira or the Confluence agent
TaskTurnOn(messages, runs, max_turns) ==
    \E message \in messages, run \in runs,
       out1 \in AgentOutcomes, out2 \in AgentOutcomes :
        /\ turns < max_turns
        /\ task_turns < MaxTaskTurns
        /\ RoutedAgent(run) \in {"jira", "confluence"}
        /\ out1 # AGENT_CANNOT_HANDLE_SIGNAL => out2 = "reply"
        /\ Call(message, run, out1, out2, "created")
        /\ turns' = turns + 1
        /\ task_turns' = task_turns + 1

\* a message routed to the incident flow while the flow is not active
ColdStartTurnOn(messages, runs, max_turns) ==
    \E message \in messages, run \in runs :
        /\ turns < max_turns
        /\ RoutedAgent(run) = "incident"
        /\ ~FlowActive(incident_flow)
        /\ Call(message, run, "reply", "reply", "created")
        /\ turns' = turns + 1
        /\ UNCHANGED task_turns

\* a message routed to the incident flow while the flow is active
FlowTurnOn(messages, runs, max_turns) ==
    \E message \in messages, run \in runs, page_outcome \in PageOutcomes :
        /\ turns < max_turns
        /\ RoutedAgent(run) = "incident"
        /\ FlowActive(incident_flow)
        /\ page_outcome # "created" => ReachesPageCreation(message)
        /\ Call(message, run, "reply", "reply", page_outcome)
        /\ turns' = turns + 1
        /\ UNCHANGED task_turns

(***************************************************************************)
(* Spec: every session of at most MaxTurns messages.                       *)
(***************************************************************************)
\* process_message_sync("$__cleanup_signal__")
Cleanup ==
    /\ turn.kind # "cleanup"
    /\ Call(CLEANUP_SIGNAL, [raises |-> TRUE, data |-> <<>>], "reply", "reply",
            "created")
    /\ UNCHANGED <<turns, task_turns>>

TaskTurn == TaskTurnOn(TaskMessages, ClassifierRuns, MaxTurns)

ColdStartTurn == ColdStartTurnOn(RequestMessages, ClassifierRuns, MaxTurns)

FlowTurn == FlowTurnOn(FlowMessages(incident_flow), ClassifierRuns, MaxTurns)

Next == Cleanup \/ TaskTurn \/ ColdStartTurn \/ FlowTurn

Spec == Init /\ [][Next]_vars

(***************************************************************************)
(* SpecFlow: the sessions of at most MaxFlowTurns messages in which the    *)
(* classifier labels every message "incident", so that every message       *)
(* after the cold start reaches _handle_incident_flow.                     *)
(***************************************************************************)
IncidentRuns == {run \in ClassifierRuns : classify_query(run) = "incident"}

IncidentColdStart == ColdStartTurnOn(RequestMessages, IncidentRuns, MaxFlowTurns)

IncidentFlowTurn ==
    FlowTurnOn(FlowMessages(incident_flow), IncidentRuns, MaxFlowTurns)

NextFlow == IncidentColdStart \/ IncidentFlowTurn

SpecFlow == Init /\ [][NextFlow]_vars

(***************************************************************************)
(* SpecScript: the sessions of at most MaxFlowTurns messages in which the  *)
(* user asks for an incident report and then answers each question of      *)
(* TEMPLATE_CONFIG in turn with a valid value and confirms; the classifier *)
(* and the agents are free.                                                *)
(***************************************************************************)
\* one valid value per question, then the confirmation
ScriptAnswers ==
    << <<"C","a","i","d","a">>,
       <<"A","l","t","o">>,
       <<"A","l","t","a">>,
       <<"P","e","n","d","i","e","n","t","e">>,
       <<"U","N","T","M">>,
       <<"n","i","n","g","u","n","o">>,
       <<"C","a","i","d","a">>,
       <<"n","i","n","g","u","n","o">>,
       <<"h","o","y">>,
       <<"C","a","i","d","a">>,
       <<"S","i">> >>

\* what the user says next
ScriptMessages ==
    IF user_script.pos \in 1..Len(ScriptAnswers)
    THEN {ScriptAnswers[user_script.pos]}
    ELSE {IncidentRequest}

ScriptTaskTurn == TaskTurnOn(ScriptMessages, ClassifierRuns, MaxFlowTurns)

ScriptColdStart == ColdStartTurnOn(ScriptMessages, ClassifierRuns, MaxFlowTurns)

ScriptFlowTurn == FlowTurnOn(ScriptMessages, ClassifierRuns, MaxFlowTurns)

NextScript == ScriptTaskTurn \/ ScriptColdStart \/ ScriptFlowTurn

SpecScript == Init /\ [][NextScript]_vars

(***************************************************************************)
(* The tools of the Task Agents as a state machine.  The two agents keep   *)
(* separate context dictionaries and no tool of one reads the other's, so  *)
(* a session of this machine calls the tools of one of them.               *)
(***************************************************************************)
\* number of results a smart search of Confluence returns
MaxResults == 4
\* number of results a plain search of Confluence returns
MaxPlainResults == 1
\* number of issues a search of Jira returns
MaxIssues == 2

\* titles of pages the keyword heuristic keeps
RelevantTitles ==
    << <<"R","u","n","b","o","o","k">>, <<"D","e","p","l","o","y">>, <<"B","a","c","k","u","p">>, <<"A","l","e","r","t","a","s">>, <<"G","u","a","r","d","i","a">>, <<"A","c","c","e","s","o","s">> >>

\* titles of pages the keyword heuristic filters
FilteredTitles ==
    << <<"S","p","r","i","n","t"," ","G","o","a","l">>, <<"S","p","r","i","n","t"," ","R","e","v","i","e","w">>, <<"D","a","i","l","y"," ","S","c","r","u","m">>, <<"S","p","r","i","n","t"," ","P","l","a","n","n","i","n","g">>,
       <<"S","p","r","i","n","t"," ","R","e","t","r","o">>, <<"S","p","r","i","n","t"," ","G","o","a","l"," ","Q","2">> >>

\* the lists of n results of the client: the i-th has id i, and any of them
\* may be a page of a Scrum ceremony
RawResults(n) ==
    { [i \in 1..n |->
          [id |-> i,
           title |-> IF i \in S THEN FilteredTitles[((i - 1) % 6) + 1]
                     ELSE RelevantTitles[((i - 1) % 6) + 1]]] :
      S \in SUBSET (1..n) }

SmartSearchResults == UNION { RawResults(n) : n \in 0..MaxResults }

PlainSearchResults == UNION { RawResults(n) : n \in 0..MaxPlainResults }

\* the issues Jira knows
Issues ==
    << [key |-> <<"O","P","S","-","7">>, summary |-> <<"R","u","n","b","o","o","k"," ","c","a","i","d","o">>],
       [key |-> <<"O","P","S","-","8">>, summary |-> <<"L","o","g","i","n"," ","l","e","n","t","o">>],
       [key |-> <<"O","P","S","-","9">>, summary |-> <<"D","e","p","l","o","y">>] >>

\* the lists of issues of the client: no issue twice
IssueLists ==
    UNION { { [i \in 1..n |-> Issues[g[i]]] :
              g \in { h \in [1..n -> 1..Len(Issues)] :
                         \A a, b \in 1..n : a # b => h[a] # h[b] } } :
            n \in 0..MaxIssues }

\* what the client call does
ClientOutcomes(lists) == {ClientRaises} \cup { ClientReturns(l) : l \in lists }

\* the reference texts of the model
References ==
    { <<"o","p","c","i","o_acute","n"," ","2">>,
      <<"o","p","c","i","o","n"," ","1">>,
      <<"n","u_acute","m","e","r","o"," ","3">>,
      <<"n","u","m","e","r","o"," ","1">>,
      <<"#","1">>,
      <<"2">>,
      <<"o","p","t","i","o","n"," ","2">>,
      <<"n","u","m","b","e","r"," ","1">>,
      <<"o","p","c","i","o_acute","n"," ","9">>,
      <<"l","a"," ","p","r","i","m","e","r","a">>,
      <<"l","a"," ","s","e","g","u","n","d","a">>,
      <<"l","a"," ","u_acute","l","t","i","m","a">>,
      <<"l","a"," ","o","t","r","a">>,
      <<"f","i","l","t","r","a","d","a">>,
      <<"s","p","r","i","n","t"," ","g","o","a","l">>,
      <<"r","u","n","b","o","o","k">>,
      <<"x","y","z">>,
      <<>> }

CallsConfluence == tool.agent \in {"none", "confluence"}

CallsJira == tool.agent \in {"none", "jira"}

\* number of pages the client can give the details of
MaxPages == 2

\* those pages
KnownPages == [i \in 1..MaxPages |-> [id |-> i, title |-> RelevantTitles[i]]]

\* The searches write last_search_results and filtered_results_info and
\* nothing else; remember_current_page, get_page_details, create_incident_page
\* and remember_current_issue write current_page or current_issue and
\* nothing else; no tool reads both a candidate set and a current item.  A
\* session of the machine writes one of the two parts of the memory.
WritesCandidates ==
    /\ confluence_context.current_page = NoCurrentPage
    /\ jira_context.current_issue = NoCurrentIssue

WritesCurrentItem ==
    /\ confluence_context.last_search_results = <<>>
    /\ confluence_context.filtered_results_info = NoFilteredInfo
    /\ jira_context.last_search_results = <<>>

\* the tool smart_search
SmartSearch(client) ==
    /\ CallsConfluence
    /\ WritesCandidates
    /\ \E r \in {smart_search(confluence_context, client)} :
          /\ confluence_context' = r.context
          /\ tool' = [agent |-> "confluence", name |-> "smart_search",
                      reference |-> <<>>, raises |-> client.raises,
                      result |-> IF r.success
                                 THEN [success |-> TRUE, message |-> "text",
                                       results |-> r.results,
                                       all_results |-> r.all_results]
                                 ELSE [success |-> FALSE, message |-> "text",
                                       results |-> <<>>]]
    /\ UNCHANGED <<jira_context, normalizer>>
    /\ UNCHANGED session_vars

\* the tool search_content
SearchContent(client) ==
    /\ CallsConfluence
    /\ WritesCandidates
    /\ \E r \in {search_content(confluence_context, client)} :
          /\ confluence_context' = r.context
          /\ tool' = [agent |-> "confluence", name |-> "search_content",
                      reference |-> <<>>, raises |-> client.raises,
                      result |-> [success |-> r.success, message |-> "text",
                                  results |-> r.results]]
    /\ UNCHANGED <<jira_context, normalizer>>
    /\ UNCHANGED session_vars

\* the tool get_page_by_reference
GetPageByReference(reference) ==
    /\ CallsConfluence
    /\ tool' = [agent |-> "confluence", name |-> "get_page_by_reference",
                reference |-> reference, raises |-> FALSE,
                result |-> get_page_by_reference(confluence_context, reference)]
    /\ UNCHANGED <<confluence_context, jira_context, normalizer>>
    /\ UNCHANGED session_vars

\* the tools get_my_issues and search_issues
SearchIssues(client) ==
    /\ CallsJira
    /\ WritesCandidates
    /\ \E r \in {search_issues(jira_context, client)} :
          /\ jira_context' = r.context
          /\ tool' = [agent |-> "jira", name |-> "search_issues",
                      reference |-> <<>>, raises |-> client.raises,
                      result |-> IF r.success
                                 THEN [success |-> TRUE, issues |-> r.results]
                                 ELSE [success |-> FALSE, error |-> "text"]]
    /\ UNCHANGED <<confluence_context, normalizer>>
    /\ UNCHANGED session_vars

\* the tool get_issue_by_reference
GetIssueByReference(reference) ==
    /\ CallsJira
    /\ tool' = [agent |-> "jira", name |-> "get_issue_by_reference",
                reference |-> reference, raises |-> FALSE,
                result |-> get_issue_by_reference(jira_context, reference)]
    /\ UNCHANGED <<confluence_context, jira_context, normalizer>>
    /\ UNCHANGED session_vars

\* a tool of JiraAgent that calls the client; the context is not written
JiraOperate(name, raises) ==
    /\ CallsJira
    /\ tool' = [agent |-> "jira", name |-> name, reference |-> <<>>,
                raises |-> raises, result |-> jira_operation(name, raises)]
    /\ UNCHANGED <<confluence_context, jira_context, normalizer>>
    /\ UNCHANGED session_vars

\* a tool of ConfluenceAgent that calls the client
ConfluenceOperate(name, raises) ==
    /\ CallsConfluence
    /\ tool' = [agent |-> "confluence", name |-> name, reference |-> <<>>,
                raises |-> raises, result |-> confluence_operation(name, raises)]
    /\ UNCHANGED <<confluence_context, jira_context, normalizer>>
    /\ UNCHANGED session_vars

\* the tool remember_current_page
RememberCurrentPage(page) ==
    /\ CallsConfluence
    /\ WritesCurrentItem
    /\ \E r \in {remember_current_page(confluence_context, page.id, page.title)} :
          /\ confluence_context' = r.context
          /\ tool' = [agent |-> "confluence", name |-> "remember_current_page",
                      reference |-> <<>>, raises |-> FALSE, result |-> r.result]
    /\ UNCHANGED <<jira_context, normalizer>>
    /\ UNCHANGED session_vars

\* the tool get_current_page
GetCurrentPage ==
    /\ CallsConfluence
    /\ tool' = [agent |-> "confluence", name |-> "get_current_page",
                reference |-> <<>>, raises |-> FALSE,
                result |-> get_current_page(confluence_context)]
    /\ UNCHANGED <<confluence_context, jira_context, normalizer>>
    /\ UNCHANGED session_vars

\* the tool get_page_details
GetPageDetails(page, outcome) ==
    /\ CallsConfluence
    /\ WritesCurrentItem
    /\ \E r \in {get_page_details(confluence_context, page.id, page, outcome)} :
          /\ confluence_context' = r.context
          /\ tool' = [agent |-> "confluence", name |-> "get_page_details",
                      reference |-> <<>>, raises |-> outcome = "raise",
                      result |-> r.result]
    /\ UNCHANGED <<jira_context, normalizer>>
    /\ UNCHANGED session_vars

\* the tool create_incident_page of ConfluenceAgent
CreateIncidentPage(page, outcome) ==
    /\ CallsConfluence
    /\ WritesCurrentItem
    /\ \E r \in {confluence_create_incident_page(confluence_context, page, outcome)} :
          /\ confluence_context' = r.context
          /\ tool' = [agent |-> "confluence", name |-> "create_incident_page",
                      reference |-> <<>>, raises |-> outcome = "raise",
                      result |-> r.result]
    /\ UNCHANGED <<jira_context, normalizer>>
    /\ UNCHANGED session_vars

\* the tool remember_current_issue
RememberCurrentIssue(issue) ==
    /\ CallsJira
    /\ WritesCurrentItem
    /\ \E r \in {remember_current_issue(jira_context, issue.key)} :
          /\ jira_context' = r.context
          /\ tool' = [agent |-> "jira", name |-> "remember_current_issue",
                      reference |-> issue.key, raises |-> FALSE,
                      result |-> r.result]
    /\ UNCHANGED <<confluence_context, normalizer>>
    /\ UNCHANGED session_vars

\* the tool get_current_issue
GetCurrentIssue ==
    /\ CallsJira
    /\ tool' = [agent |-> "jira", name |-> "get_current_issue",
                reference |-> <<>>, raises |-> FALSE,
                result |-> get_current_issue(jira_context)]
    /\ UNCHANGED <<confluence_context, jira_context, normalizer>>
    /\ UNCHANGED session_vars

\* the tool get_issue_details
GetIssueDetails(issue, outcome) ==
    /\ CallsJira
    /\ WritesCurrentItem
    /\ \E r \in {get_issue_details(jira_context, issue, outcome)} :
          /\ jira_context' = r.context
          /\ tool' = [agent |-> "jira", name |-> "get_issue_details",
                      reference |-> issue.key, raises |-> outcome = "raise",
                      result |-> r.result]
    /\ UNCHANGED <<confluence_context, normalizer>>
    /\ UNCHANGED session_vars

NextAgents ==
    \/ \E name \in JiraOperations : \E raises \in BOOLEAN : JiraOperate(name, raises)
    \/ \E name \in ConfluenceOperations : \E raises \in BOOLEAN :
          ConfluenceOperate(name, raises)
    \/ \E client \in ClientOutcomes(SmartSearchResults) : SmartSearch(client)
    \/ \E client \in ClientOutcomes(PlainSearchResults) : SearchContent(client)
    \/ \E reference \in References : GetPageByReference(reference)
    \/ \E client \in ClientOutcomes(IssueLists) : SearchIssues(client)
    \/ \E reference \in References : GetIssueByReference(reference)
    \/ \E i \in 1..MaxPages : RememberCurrentPage(KnownPages[i])
    \/ GetCurrentPage
    \/ \E i \in 1..MaxPages : \E outcome \in DetailOutcomes :
          GetPageDetails(KnownPages[i], outcome)
    \/ \E outcome \in DetailOutcomes : CreateIncidentPage(KnownPages[1], outcome)
    \/ \E i \in 1..Len(Issues) : RememberCurrentIssue(Issues[i])
    \/ GetCurrentIssue
    \/ \E i \in 1..Len(Issues) : \E outcome \in DetailOutcomes :
          GetIssueDetails(Issues[i], outcome)

SpecAgents == Init /\ [][NextAgents]_vars

(***************************************************************************)
(* Calls of the parsers of the Time Normalizer.  The caller's text is      *)
(* written from what the caller means, and the call parses the text.       *)
(***************************************************************************)
\* largest whole number of hours in a duration
MaxHours == 2
\* number of days before each anchor date taken as reference date
MaxDaysBack == 6

\* str(n) for n >= 0
RECURSIVE Decimal(_)
Decimal(n) ==
    IF n < 10 THEN <<DigitChars[n + 1]>>
    ELSE Append(Decimal(n \div 10), DigitChars[(n % 10) + 1])

\* the decimals of a number of quarters
QuarterDigits == << <<"2","5">>, <<"5">>, <<"7","5">> >>

\* a number of hours written with a decimal comma or a decimal point
HoursText(hours) ==
    Decimal(hours.whole)
    \o (IF hours.quarters = 0 THEN <<>>
        ELSE <<hours.mark>> \o QuarterDigits[hours.quarters])

\* the numbers of hours a caller writes: whole, or with quarters
HoursValues ==
    { [whole |-> a, quarters |-> q, mark |-> s] :
        a \in 0..MaxHours, q \in 0..3, s \in {",", "."} }
    \ { [whole |-> a, quarters |-> 0, mark |-> ","] : a \in 0..MaxHours }

\* the numbers of minutes a caller writes
MinutesValues == {0, 1, 30, 45, 90}

NoHours == [whole |-> 0, quarters |-> 0, mark |-> "."]

\* the ways of writing hours and minutes, hours only, minutes only
HoursMinutesForms == {"Xh Ym", "XhYm", "XH YM", "X horas Y minutos"}

HoursForms == {"Xh", "X horas"}

MinutesForms == {"Ym", "Y min", "Y", "-Y"}

\* the text of a duration in a form
DurationText(form, hours, minutes) ==
    CASE form = "Xh Ym" -> HoursText(hours) \o <<"h"," ">> \o Decimal(minutes) \o <<"m">>
      [] form = "XhYm" -> HoursText(hours) \o <<"h">> \o Decimal(minutes) \o <<"m">>
      [] form = "XH YM" -> HoursText(hours) \o <<"H"," ">> \o Decimal(minutes) \o <<"M">>
      [] form = "X horas Y minutos" ->
            HoursText(hours) \o <<" ","h","o","r","a","s"," ">> \o Decimal(minutes) \o <<" ","m","i","n","u","t","o","s">>
      [] form = "Xh" -> HoursText(hours) \o <<"h">>
      [] form = "X horas" -> HoursText(hours) \o <<" ","h","o","r","a","s">>
      [] form = "Ym" -> Decimal(minutes) \o <<"m">>
      [] form = "Y min" -> Decimal(minutes) \o <<" ","m","i","n">>
      [] form = "Y" -> Decimal(minutes)
      [] form = "-Y" -> <<"-">> \o Decimal(minutes)

\* texts that are in none of the forms
OtherDurations ==
    { <<>>, <<"a","b","c">>, <<"h">>, <<"h","o","r","a","s",":"," ","2">>,
      <<"m","i","n","u","t","o","s",":"," ","5">>, <<"u","n"," ","r","a","t","o">>, <<"-","5","m">> }

TimeCall(form, hours, minutes, text) ==
    [fn |-> "parse_time", done |-> FALSE, form |-> form, hours |-> hours,
     minutes |-> minutes, text |-> text, result |-> None]

TimeCalls ==
    { TimeCall(f, h, m, DurationText(f, h, m)) :
        f \in HoursMinutesForms, h \in HoursValues, m \in MinutesValues }
    \cup { TimeCall(f, h, 0, DurationText(f, h, 0)) : f \in HoursForms, h \in HoursValues }
    \cup { TimeCall(f, NoHours, m, DurationText(f, NoHours, m)) :
             f \in MinutesForms, m \in MinutesValues }
    \cup { TimeCall("other", NoHours, 0, t) : t \in OtherDurations }

\* the reference dates: the days up to each of these, across the end of a
\* month, of February in a leap year and in a common year, and of a year
AnchorDates ==
    { [y |-> 2024, m |-> 5, d |-> 23], [y |-> 2024, m |-> 3, d |-> 3],
      [y |-> 2023, m |-> 3, d |-> 3], [y |-> 2024, m |-> 1, d |-> 3] }

ReferenceDates == { minus_days(a, k) : a \in AnchorDates, k \in 0..MaxDaysBack }

\* the descriptions that name a weekday of last week, and the others
WeekdayDescriptions ==
    { [asked |-> days_of_week[k].index, bare |-> -1,
       text |-> prefix \o days_of_week[k].name \o <<" ","p","a","s","a","d","o">>] :
        k \in 1..Len(days_of_week), prefix \in { <<>>, <<"e","l"," ">>, <<"E","l"," ">> } }

\* the descriptions that are the bare name of a weekday
BareWeekdayDescriptions ==
    { [asked |-> -1, bare |-> days_of_week[k].index, text |-> prefix \o days_of_week[k].name] :
        k \in 1..Len(days_of_week), prefix \in { <<>>, <<"e","l"," ">> } }

OtherDescriptions ==
    { [asked |-> -1, bare |-> -1, text |-> t] :
        t \in { <<"a","y","e","r">>, <<"A","y","e","r"," ">>, <<"h","o","y">>, <<"a","n","t","e","a","y","e","r">>, <<"s","e","m","a","n","a"," ","p","a","s","a","d","a">>,
                <<"2","0","2","4","-","0","2","-","2","9">>, <<"2","9","/","0","2","/","2","0","2","3">>, <<"p","r","o","n","t","o">> } }

DateCalls ==
    { [fn |-> "parse_date", done |-> FALSE, asked |-> desc.asked, bare |-> desc.bare,
       text |-> desc.text, today |-> day, result |-> NoDate] :
        desc \in WeekdayDescriptions \cup BareWeekdayDescriptions \cup OtherDescriptions,
        day \in ReferenceDates }

\* the duration texts and date texts a caller of add_worklog passes; the
\* empty date text is the date left out
WorklogDurations ==
    { <<"1","h"," ","3","0","m">>, <<"9","0","m">>, <<"1",",","5","h">>, <<"0","m">>, <<"u","n"," ","r","a","t","o">>, <<"I","n","f">>, <<>> }

WorklogDates ==
    { <<"h","o","y">>, <<"a","y","e","r">>, <<"e","l"," ","l","u","n","e","s"," ","p","a","s","a","d","o">>, <<"2","0","2","4","-","0","2","-","2","9">>, <<"p","r","o","n","t","o">>, <<" ">>, <<>> }

WorklogCalls ==
    { [fn |-> "add_worklog", done |-> FALSE, issue_key |-> <<"O","P","S","-","7">>,
       time_str |-> t, date_str |-> d, today |-> day, utc_offset |-> z,
       client |-> c] :
        t \in WorklogDurations, d \in WorklogDates, day \in AnchorDates,
        z \in UtcOffsets, c \in WorklogOutcomes }

\* before a call: the agent is built and the caller has its text
InitTime ==
    /\ conversation_history = <<>>
    /\ active_agent = "none"
    /\ incident_flow = NoFlow
    /\ turn = NoTurn
    /\ turns = 0
    /\ task_turns = 0
    /\ user_script = NoScript
    /\ confluence_context = ConfluenceContext
    /\ jira_context = JiraContext
    /\ tool = NoTool
    /\ normalizer \in TimeCalls \cup DateCalls \cup WorklogCalls

\* the call _parse_time_str_to_seconds(text)
ParseTime ==
    /\ normalizer.fn = "parse_time"
    /\ ~normalizer.done
    /\ normalizer' = [normalizer EXCEPT !.done = TRUE,
                         !.result = parse_time_str_to_seconds(normalizer.text)]
    /\ UNCHANGED <<confluence_context, jira_context, tool>>
    /\ UNCHANGED session_vars

\* the call _parse_date_description_to_date_obj(text) with
\* context['current_date'] = today
ParseDate ==
    /\ normalizer.fn = "parse_date"
    /\ ~normalizer.done
    /\ normalizer' = [normalizer EXCEPT !.done = TRUE,
                         !.result = parse_date_description_to_date_obj(
                                        normalizer.text, normalizer.today)]
    /\ UNCHANGED <<confluence_context, jira_context, tool>>
    /\ UNCHANGED session_vars

\* what a call of add_worklog leaves to observe
WorklogTool(returned) ==
    [agent |-> "jira", name |-> "add_worklog", reference |-> <<>>, raises |-> FALSE,
     result |-> returned.result, rest_call |-> returned.rest_call]

\* the Issue Agent's tool add_worklog(issue_key, time_str, comment, date_str)
\* with context['current_date'] = today
AddWorklog ==
    /\ normalizer.fn = "add_worklog"
    /\ ~normalizer.done
    /\ normalizer' = [normalizer EXCEPT !.done = TRUE]
    /\ tool' = WorklogTool(add_worklog(normalizer.issue_key, normalizer.time_str,
                                       normalizer.date_str, normalizer.today,
                                       normalizer.utc_offset, normalizer.client))
    /\ UNCHANGED <<confluence_context, jira_context>>
    /\ UNCHANGED session_vars

NextTime == ParseTime \/ ParseDate \/ AddWorklog

SpecTime == InitTime /\ [][NextTime]_vars

(***************************************************************************)
(* Properties.                                                             *)
(***************************************************************************)
\* a step that is a non-cleanup call of process_message_sync
IsTurnStep == turns' = turns + 1

\* the five required slots of the IncidentRecord
RequiredSlots ==
    {"tipo_incidente", "fecha_incidente", "impacto", "prioridad",
     "estado_actual"}

\* the required slots that are missing or empty in a record
EmptyRequiredSlots(record) ==
    {f \in RequiredSlots : f \notin DOMAIN record \/ record[f] = <<>>}

\* C1: whenever the incident flow is active at the start of a turn, the
\* message goes to the incident-flow handler: the classifier is not
\* consulted and no Task Agent is called in that turn.
C1_ActiveFlowBypassesClassifier ==
    [][(IsTurnStep /\ FlowActive(incident_flow))
          => /\ turn'.classifier_calls = 0
             /\ turn'.handle_calls = <<>>
             /\ turn'.flow_handler_calls = 1]_vars

\* C2: a user who starts an incident flow, answers every question with a
\* valid value in consecutive turns and then confirms finds the flow
\* completed (no longer active), with exactly one page-creation call made,
\* whose record has all five required slots non-empty.
C2_ScriptedDialogueCompletes ==
    (user_script.pos = ScriptDone /\ ~user_script.page_raised)
        => /\ ~FlowActive(incident_flow)
           /\ user_script.page_calls = 1
           /\ Len(turn.page_calls) = 1
           /\ \A i \in 1..Len(turn.page_calls) :
                  EmptyRequiredSlots(turn.page_calls[i]) = {}

\* the other Task Agent
OtherTaskAgent(agent) == IF agent = "jira" THEN "confluence" ELSE "jira"

\* C3: reflection is one-hop: when the initially selected Task Agent
\* returns the cannot-handle signal, the message is retried exactly once,
\* with the other Task Agent; no turn makes more than two handle() calls;
\* and when the other agent answers normally it is the active_agent
\* recorded after the turn.
C3_ReflectionOneHop ==
    /\ Len(turn.handle_calls) <= 2
    /\ Len(turn.handle_calls) = Len(turn.handle_results)
    /\ (turn.handle_results # <<>>
        /\ turn.handle_results[1] = AGENT_CANNOT_HANDLE_SIGNAL)
          => /\ Len(turn.handle_calls) = 2
             /\ turn.handle_calls[2] = OtherTaskAgent(turn.handle_calls[1])
             /\ turn.handle_results[2] = "reply"
                   => active_agent = turn.handle_calls[2]
    /\ (turn.handle_results # <<>>
        /\ turn.handle_results[1] # AGENT_CANNOT_HANDLE_SIGNAL)
          => Len(turn.handle_calls) = 1

C3_Witness ==
    /\ turn.handle_calls = <<"jira", "confluence">>
    /\ turn.handle_results = <<AGENT_CANNOT_HANDLE_SIGNAL, "reply">>
    /\ active_agent = "confluence"

\* the entries of a history that were appended after the first n appends
EntriesAfter(h, n) == SelectSeq(h, LAMBDA e : e.content > n)

C5_HistoryCappedFifo ==
    /\ Len(conversation_history) <= MAX_HISTORY_LENGTH
    /\ Len(conversation_history) =
           IF 2 * turns <= MAX_HISTORY_LENGTH THEN 2 * turns
           ELSE MAX_HISTORY_LENGTH
    /\ \A i \in 1..Len(conversation_history) :
           conversation_history[i].content =
               2 * turns - Len(conversation_history) + i

C5_Witness ==
    /\ 2 * turns > MAX_HISTORY_LENGTH
    /\ Len(conversation_history) = MAX_HISTORY_LENGTH
    /\ conversation_history[1].content > 1

\* C6: the routed domain is a function of the previous active_agent and
\* the fresh classification: previous domain and "unsure" give the previous
\* domain; a definite classification that differs from the previous domain
\* gives the classification; no previous domain and "unsure" give the
\* issue domain; otherwise the classification itself.
C6_StickyRouting ==
    [][IsTurnStep
          => /\ turn'.classification \in
                    {"jira", "confluence", "incident", "unsure"}
             /\ turn'.initial_agent =
                    CASE active_agent # "none" /\ turn'.classification = "unsure"
                             -> active_agent
                      [] active_agent # "none" /\ turn'.classification # "unsure"
                           /\ turn'.classification # active_agent
                             -> turn'.classification
                      [] active_agent = "none" /\ turn'.classification = "unsure"
                             -> "jira"
                      [] OTHER -> turn'.classification]_vars

C6_Witness ==
    /\ task_turns = 2
    /\ turn.classification = "unsure"
    /\ turn.initial_agent = "confluence"

\* C7: when a confirmed record is submitted and page creation fails, the
\* flow stays active with confirmation pending and the record unchanged,
\* so that a following affirmative reply submits the same record again.
C7_FailedCreationKeepsConfirming ==
    [][(IsTurnStep /\ turn'.page_calls # <<>>
        /\ turn'.reply.kind # "page_created")
          => /\ FlowActive(incident_flow')
             /\ incident_flow'.confirmation_step
             /\ incident_flow'.collected_data = incident_flow.collected_data]_vars

\* C8: page creation is never called with a record in which a required
\* slot is missing or empty: on an affirmative reply to the confirmation
\* question with such a record the reply names the missing fields, no
\* page-creation call is made, and the flow stays active with confirmation
\* pending.
C8_NoCreationWithMissingSlots ==
    [][IsTurnStep
          => /\ \A i \in 1..Len(turn'.page_calls) :
                    EmptyRequiredSlots(turn'.page_calls[i]) = {}
             /\ (/\ turn'.flow_handler_calls = 1
                 /\ incident_flow.confirmation_step
                 /\ InList(Lower(turn'.message), AffirmativeKeywords)
                 /\ EmptyRequiredSlots(incident_flow.collected_data) # {})
                   => /\ turn'.page_calls = <<>>
                      /\ turn'.reply.kind = "missing_fields"
                      /\ {turn'.reply.fields[i] :
                             i \in 1..Len(turn'.reply.fields)}
                            = EmptyRequiredSlots(incident_flow.collected_data)
                      /\ FlowActive(incident_flow')
                      /\ incident_flow'.confirmation_step
                      /\ incident_flow'.collected_data
                            = incident_flow.collected_data]_vars

C8_Witness ==
    /\ turn.reply.kind = "missing_fields"
    /\ turn.reply.fields = <<"tipo_incidente">>
    /\ turn.page_calls = <<>>
    /\ FlowActive(incident_flow)
    /\ incident_flow.confirmation_step

\* the reply matches no option, neither exactly nor by case-insensitive
\* substring in either direction
MatchesNoOption(message, options) ==
    \A i \in 1..Len(options) :
        /\ message # options[i]
        /\ ~IsSubstr(Lower(options[i]), Lower(message))
        /\ ~IsSubstr(Lower(message), Lower(options[i]))

\* the flow is collecting at a single-choice question
AtChoiceQuestion(flow) ==
    /\ FlowActive(flow)
    /\ ~flow.confirmation_step
    /\ flow.current_step < Len(TEMPLATE_CONFIG)
    /\ TEMPLATE_CONFIG[flow.current_step + 1].type = "choice"

\* C9 as stated: in COLLECTING at a single-choice question, every reply
\* that matches none of the options leaves current_step, the record and the
\* temp list buffer unchanged, and the reply returned contains the option
\* list of that question.
C9_AnyUnmatchedReplyReprompts ==
    [][(/\ IsTurnStep
        /\ turn'.flow_handler_calls = 1
        /\ AtChoiceQuestion(incident_flow)
        /\ MatchesNoOption(turn'.message,
                           TEMPLATE_CONFIG[incident_flow.current_step + 1].options))
          => /\ incident_flow'.current_step = incident_flow.current_step
             /\ incident_flow'.collected_data = incident_flow.collected_data
             /\ incident_flow'.temp_list_items = incident_flow.temp_list_items
             /\ turn'.reply.options =
                    TEMPLATE_CONFIG[incident_flow.current_step + 1].options]_vars

\* C9, amended: in COLLECTING at a single-choice question, a reply that is
\* not a cancel keyword and matches none of the options leaves the whole
\* flow (current_step, the record, the temp list buffer, active,
\* confirmation pending) unchanged, and the reply returned is the
\* invalid-option message with the option list of that question.
C9_UnrecognisedChoiceReprompts ==
    [][(/\ IsTurnStep
        /\ turn'.flow_handler_calls = 1
        /\ AtChoiceQuestion(incident_flow)
        /\ ~InList(Lower(turn'.message), CancelKeywords)
        /\ MatchesNoOption(turn'.message,
                           TEMPLATE_CONFIG[incident_flow.current_step + 1].options))
          => /\ incident_flow' = incident_flow
             /\ turn'.reply.kind = "invalid_option"
             /\ turn'.reply.options =
                    TEMPLATE_CONFIG[incident_flow.current_step + 1].options]_vars

C9_Witness ==
    /\ turn.reply.kind = "invalid_option"
    /\ turn.message = <<"h","o","y">>
    /\ incident_flow.current_step = 4
    /\ turn.reply.options = TEMPLATE_CONFIG[5].options

\* C10: from any non-terminal state of the incident flow, a message that
\* is a cancel keyword moves the flow to CANCELLED: the flow is no longer
\* active and no page-creation call is made.
C10_CancelFromAnyState ==
    [][(/\ IsTurnStep
        /\ FlowActive(incident_flow)
        /\ InList(Lower(turn'.message), CancelKeywords))
          => /\ ~FlowActive(incident_flow')
             /\ turn'.page_calls = <<>>]_vars

\* the record of a flow that has just started: only the incident date
FreshRecord == "fecha_incidente" :> strftime_iso(WallClockDate)

\* C11: in CONFIRMING, a negative reply returns the flow to COLLECTING(0)
\* with confirmation pending false, the temp list buffer empty and the
\* record restarted: no answer collected before the rejection remains.
C11_RejectionRestartsRecord ==
    [][(/\ IsTurnStep
        /\ turn'.flow_handler_calls = 1
        /\ FlowActive(incident_flow)
        /\ incident_flow.confirmation_step
        /\ InList(Lower(turn'.message), NegativeKeywords))
          => /\ FlowActive(incident_flow')
             /\ incident_flow'.current_step = 0
             /\ ~incident_flow'.confirmation_step
             /\ incident_flow'.temp_list_items = <<>>
             /\ DOMAIN incident_flow'.collected_data = {"fecha_incidente"}]_vars

\* C12: a cold start (the message is routed to the incident domain while
\* the flow is not active) leaves the flow active at COLLECTING(0), with
\* confirmation pending false, an empty temp list buffer and a record that
\* holds only the incident date; the message is not handled as an answer
\* and the reply is the first question.
C12_ColdStartInitialisesFlow ==
    [][(/\ IsTurnStep
        /\ turn'.initial_agent = "incident"
        /\ ~FlowActive(incident_flow))
          => /\ incident_flow' =
                    [present |-> TRUE, active |-> TRUE, current_step |-> 0,
                     collected_data |-> FreshRecord,
                     temp_list_items |-> <<>>, confirmation_step |-> FALSE]
             /\ turn'.flow_handler_calls = 0
             /\ turn'.handle_calls = <<>>
             /\ turn'.reply.kind = "first_question"
             /\ turn'.reply.step = 0]_vars

\* a second cold start, after a flow that collected an answer was cancelled
C12_Witness ==
    /\ turns >= 4
    /\ turn.reply.kind = "first_question"
    /\ incident_flow.collected_data = FreshRecord
    /\ FlowActive(incident_flow)

\* C13: in every state of the incident flow 0 <= current_step <=
\* num_questions, and whenever current_step equals num_questions the
\* confirmation is pending.
C13_StepWithinRange ==
    incident_flow.present
        => /\ incident_flow.current_step \in 0..Len(TEMPLATE_CONFIG)
           /\ incident_flow.current_step = Len(TEMPLATE_CONFIG)
                  => incident_flow.confirmation_step

C13_Witness ==
    /\ FlowActive(incident_flow)
    /\ incident_flow.current_step = Len(TEMPLATE_CONFIG)
    /\ incident_flow.confirmation_step
    /\ turn.reply.kind = "confirm_summary"

\* C17: when the initially selected Task Agent declines and the other Task
\* Agent also declines or raises, the turn ends with one apology that names
\* both domains, and no further agent is tried.
C17_ApologyNamesBothDomains ==
    (/\ Len(turn.handle_results) = 2
     /\ turn.handle_results[1] = AGENT_CANNOT_HANDLE_SIGNAL
     /\ turn.handle_results[2] \in {AGENT_CANNOT_HANDLE_SIGNAL, "raise"})
        => /\ Len(turn.handle_calls) = 2
           /\ Len(turn.appended) = 1
           /\ turn.reply.kind \in {"neither_can_handle", "alternative_error"}
           /\ turn.reply.agents = {"jira", "confluence"}

\* the decimal numeral of a number from 0 to 9
Numeral(n) == <<DigitChars[n + 1]>>

\* the forms of a numeric reference as the claim words them
EnglishOptionForms == { <<"o","p","t","i","o","n"," ">>, <<"n","u","m","b","e","r"," ">>, <<"#">>, <<>> }

\* the forms of a numeric reference in the language of the dialogue
SpanishOptionForms ==
    { <<"o","p","c","i","o_acute","n"," ">>, <<"o","p","c","i","o","n"," ">>, <<"n","u_acute","m","e","r","o"," ">>, <<"n","u","m","e","r","o"," ">>, <<"#">>, <<>> }

\* the last tool call resolved the reference `form N` against a list that
\* has a position N
PageOptionResolved(form, n) ==
    /\ tool.name = "get_page_by_reference"
    /\ tool.reference = form \o Numeral(n)
    /\ n <= Len(confluence_context.last_search_results)

IssueOptionResolved(form, n) ==
    /\ tool.name = "get_issue_by_reference"
    /\ tool.reference = form \o Numeral(n)
    /\ n <= Len(jira_context.last_search_results)

\* the result is the item at position n, and the same call repeated on the
\* memory the call left gives the same result
ReturnsPageAt(n) ==
    /\ tool.result.success
    /\ tool.result.page = confluence_context.last_search_results[n]
    /\ get_page_by_reference(confluence_context, tool.reference) = tool.result

ReturnsIssueAt(n) ==
    /\ tool.result.success
    /\ tool.result.issue_key = jira_context.last_search_results[n].key
    /\ tool.result.summary = jira_context.last_search_results[n].summary
    /\ get_issue_by_reference(jira_context, tool.reference) = tool.result

\* C14 as worded: whenever either resolver is given "option N", "number N",
\* "#N" or the bare number N, with N a position of the last results, it
\* returns the item at position N, and a repeated call returns it again.
C14_EnglishOptionReturnsItem ==
    \A form \in EnglishOptionForms : \A n \in 1..9 :
        /\ PageOptionResolved(form, n) => ReturnsPageAt(n)
        /\ IssueOptionResolved(form, n) => ReturnsIssueAt(n)

\* C14: whenever either resolver is given "opción N" / "opcion N",
\* "número N" / "numero N", "#N" or the bare number N, with N a position of
\* the last results, it returns the item at position N, and a repeated call
\* with the memory unchanged returns the same item.
C14_NumericOptionReturnsItem ==
    \A form \in SpanishOptionForms : \A n \in 1..9 :
        /\ PageOptionResolved(form, n) => ReturnsPageAt(n)
        /\ IssueOptionResolved(form, n) => ReturnsIssueAt(n)

C14_Witness ==
    /\ PageOptionResolved(<<"n","u_acute","m","e","r","o"," ">>, 3)
    /\ tool.result.success
    /\ tool.result.page.id # 3

\* a page of the model that the keyword heuristic is meant to filter
IsCeremonyPage(page) == \E k \in 1..Len(FilteredTitles) : page.title = FilteredTitles[k]

\* the pages in memory that are not ceremony pages
RelevantPages ==
    { confluence_context.last_search_results[i] :
        i \in { j \in 1..Len(confluence_context.last_search_results) :
                  ~IsCeremonyPage(confluence_context.last_search_results[j]) } }

\* page is the n-th relevant page in the order the client returned them
\* (the id of a result of the model is its position in the client's list)
IsNthRelevant(page, n) ==
    /\ page \in RelevantPages
    /\ Cardinality({ q \in RelevantPages : q.id <= page.id }) = n

\* C15: when a smart search has just succeeded and the next tool call
\* resolves a numeric reference N ("opción N", "número N", "#N", N) with
\* 1 <= N <= r, r the number of relevant results, the call returns the N-th
\* relevant result of the search, not a filtered one, wherever the filtered
\* results stood in the client's list.
C15_NumberCountsRelevantOnly ==
    [][\A form \in SpanishOptionForms : \A n \in 1..9 :
          ( /\ tool.name = "smart_search"
            /\ tool.result.success
            /\ tool'.name = "get_page_by_reference"
            /\ tool'.reference = form \o Numeral(n)
            /\ n <= Cardinality(RelevantPages) )
          => /\ tool'.result.success
             /\ IsNthRelevant(tool'.result.page, n)
             /\ ~tool'.result.was_filtered]_vars

\* "opción 2" after a smart search with 3 relevant results and 1 filtered
\* result that came first in the client's list
C15_Witness ==
    /\ tool.name = "get_page_by_reference"
    /\ tool.reference = <<"o","p","c","i","o_acute","n"," ","2">>
    /\ confluence_context.filtered_results_info.relevant_results = 3
    /\ confluence_context.filtered_results_info.irrelevant_results = 1
    /\ confluence_context.last_search_results[4].id = 1
    /\ ~confluence_context.last_search_results[4].is_relevant
    /\ tool.result.page.id = 3

\* the last tool call was a resolver call; its memory and what it returned
ResolverCalled == tool.name \in {"get_page_by_reference", "get_issue_by_reference"}

Candidates ==
    IF tool.name = "get_page_by_reference"
    THEN confluence_context.last_search_results
    ELSE jira_context.last_search_results

\* the texts a candidate is known by
CandidateTexts(i) ==
    IF tool.name = "get_page_by_reference"
    THEN {Lower(Candidates[i].title)}
    ELSE {Lower(Candidates[i].summary), Lower(Candidates[i].key)}

\* the reference contains, or is contained in, a text of some candidate
MatchesSomeCandidate ==
    \E i \in 1..Len(Candidates) : \E text \in CandidateTexts(i) :
        IsSubstr(text, Lower(tool.reference)) \/ IsSubstr(Lower(tool.reference), text)

\* the reference has a number or an ordinal word in it
HasNumberOrOrdinal ==
    \/ \E i \in 1..Len(tool.reference) : IsDigit(tool.reference[i])
    \/ \E k \in 1..Len(ordinal_map) : IsSubstr(ordinal_map[k].stem, Lower(tool.reference))
    \/ IsSubstr(<<"f","i","r","s","t">>, Lower(tool.reference))

\* the reference asks for the last item or for a filtered one
AsksLastOrFiltered ==
    \E word \in { <<"u_acute","l","t","i","m","a">>, <<"u","l","t","i","m","o">>, <<"l","a","s","t">>, <<"o","t","r","a">>, <<"n","o"," ","r","e","l","e","v","a","n","t","e">>,
                  <<"f","i","l","t","r","a","d","a">>, <<"s","p","r","i","n","t">> } :
        IsSubstr(word, Lower(tool.reference))

ReturnsNotFound ==
    /\ ~tool.result.success
    /\ tool.name = "get_page_by_reference" => tool.result.page = NoPage
    /\ tool.name = "get_issue_by_reference" => tool.result.issue_key = <<>>

\* C16 as worded: a resolver call whose reference matches no candidate's
\* title or summary and has no number and no ordinal word in it, and every
\* resolver call on an empty list, returns NotFound.
C16_UnmatchedReferenceNotFound ==
    ResolverCalled =>
        ( (Candidates = <<>> \/ (~MatchesSomeCandidate /\ ~HasNumberOrOrdinal))
          => ReturnsNotFound )

\* C16: a resolver call whose reference matches no rule of the resolution
\* order (no request for a filtered item, no number, no ordinal word, no
\* "last", no match with a candidate's title or summary), and every
\* resolver call on an empty list, returns NotFound: success is false and
\* there is no item.
C16_NoRuleNotFound ==
    ResolverCalled =>
        ( (Candidates = <<>> \/ ( /\ ~MatchesSomeCandidate
                                  /\ ~HasNumberOrOrdinal
                                  /\ ~AsksLastOrFiltered ))
          => ReturnsNotFound )

C16_Witness ==
    /\ tool.name = "get_page_by_reference"
    /\ tool.reference = <<"x","y","z">>
    /\ Len(confluence_context.last_search_results) >= 2
    /\ confluence_context.filtered_results_info.irrelevant_results >= 1
    /\ ReturnsNotFound

\* C20: whenever the client call of a tool raised, the tool returned a
\* result with success = false and an error message.
C20_ClientFailureIsStructured ==
    tool.raises =>
        /\ "success" \in DOMAIN tool.result
        /\ ~tool.result.success
        /\ DOMAIN tool.result \cap {"error", "message"} # {}

\* the minutes the caller means: 60 X + Y, with X in quarters of an hour
MinutesMeant ==
    (IF normalizer.form = "-Y" THEN -1 ELSE 1)
    * (15 * (4 * normalizer.hours.whole + normalizer.hours.quarters) + normalizer.minutes)

\* C18: a duration written as "Xh Ym", "Xh" or "Ym" (X whole or with a
\* decimal comma or point, also with the units spelled out or in capitals)
\* or as a bare number of minutes gives (60 X + Y) * 60 seconds when that is
\* positive and no number when it is 0 or negative; whatever the text, the
\* parser returns either no number or a positive whole number of minutes in
\* seconds.
C18_DurationInWholeSeconds ==
    (normalizer.fn = "parse_time" /\ normalizer.done) =>
        /\ normalizer.result = None
           \/ (normalizer.result > 0 /\ normalizer.result % 60 = 0)
        /\ normalizer.form # "other" =>
              normalizer.result = IF MinutesMeant <= 0 THEN None ELSE MinutesMeant * 60

\* "1,5h" gives 5400
C18_Witness ==
    /\ normalizer.fn = "parse_time"
    /\ normalizer.done
    /\ normalizer.text = <<"1",",","5","h">>
    /\ normalizer.result = 5400

\* the number of days from the reference date back to the most recent
\* earlier date whose weekday is w
DaysBackTo(today, w) ==
    CHOOSE k \in 1..7 :
        /\ weekday(minus_days(today, k)) = w
        /\ \A j \in 1..(k - 1) : weekday(minus_days(today, j)) # w

\* C19: for every reference date and every weekday name W, "W pasado" is
\* parsed as the most recent date before the reference date whose weekday
\* is W, from 1 to 7 days back and 7 when the reference date is itself a W;
\* "ayer" is parsed as the day before the reference date.
C19_LastWeekdayIsStrictlyBefore ==
    (normalizer.fn = "parse_date" /\ normalizer.done) =>
        /\ normalizer.asked # -1 =>
              /\ normalizer.result = minus_days(normalizer.today,
                                                DaysBackTo(normalizer.today, normalizer.asked))
              /\ normalizer.result # normalizer.today
              /\ weekday(normalizer.result) = normalizer.asked
              /\ weekday(normalizer.today) = normalizer.asked =>
                    normalizer.result = minus_days(normalizer.today, 7)
        /\ Strip(Lower(normalizer.text)) = <<"a","y","e","r">> =>
              /\ normalizer.result # NoDate
              /\ plus_one_day(normalizer.result) = normalizer.today

\* "lunes pasado" on Monday 2024-05-20 is 2024-05-13
C19_Witness ==
    /\ normalizer.fn = "parse_date"
    /\ normalizer.done
    /\ normalizer.text = <<"l","u","n","e","s"," ","p","a","s","a","d","o">>
    /\ normalizer.today = [y |-> 2024, m |-> 5, d |-> 20]
    /\ weekday(normalizer.today) = 0
    /\ normalizer.result = [y |-> 2024, m |-> 5, d |-> 13]

\* C21: after every completed non-cleanup turn, the active_agent recorded
\* in the shared state is the agent tag of the assistant entry appended in
\* that turn; after an incident cold start or an incident-flow turn it is
\* the incident domain.
C21_ActiveAgentIsReplyAgent ==
    [][IsTurnStep
          => /\ turn'.appended # <<>>
             /\ active_agent' = turn'.appended[Len(turn'.appended)].agent_type
             /\ turn'.initial_agent = "incident" => active_agent' = "incident"]_vars

\* the flow is asking a repeatable-list question
AtListQuestion(flow) ==
    /\ FlowActive(flow)
    /\ ~flow.confirmation_step
    /\ flow.current_step < Len(TEMPLATE_CONFIG)
    /\ TEMPLATE_CONFIG[flow.current_step + 1].type
           \in {"list_text", "list_structured"}

\* the step is a call of the flow handler at a repeatable-list question
IsListAnswerStep ==
    /\ IsTurnStep
    /\ AtListQuestion(incident_flow)
    /\ turn'.flow_handler_calls = 1

\* the list is closed: the buffer of before the call is committed to the
\* slot of the question, the buffer is cleared and the step advances by one
ListClosedWithBuffer ==
    LET key == TEMPLATE_CONFIG[incident_flow.current_step + 1].key
    IN  /\ key \in DOMAIN incident_flow'.collected_data
        /\ incident_flow'.collected_data[key] = incident_flow.temp_list_items
        /\ incident_flow'.temp_list_items = <<>>
        /\ incident_flow'.current_step = incident_flow.current_step + 1

\* C22: at a repeatable-list question, an explicit "none" keyword closes
\* the list and commits it to the record: the slot receives all items
\* accumulated in the temp buffer so far (the empty list only if nothing
\* was accumulated), the buffer is cleared and current_step advances by one.
C22_NoneKeywordCommitsBuffer ==
    [][(IsListAnswerStep /\ InList(Lower(turn'.message), NoneKeywords))
          => ListClosedWithBuffer]_vars

\* C23: at a repeatable-list question, an empty reply always closes the
\* list: whatever the temp buffer holds (including nothing) is committed to
\* the slot, the buffer is cleared, current_step advances by one, and the
\* empty reply is never itself appended as an item; every non-empty
\* non-keyword reply leaves current_step unchanged and re-asks the follow-up.
C23_EmptyReplyClosesList ==
    [][IsListAnswerStep
          => /\ Strip(turn'.message) = <<>>
                   => /\ ListClosedWithBuffer
                      /\ ~InList(turn'.message, incident_flow'.temp_list_items)
             /\ (/\ Strip(turn'.message) # <<>>
                 /\ ~InList(Lower(turn'.message), NoneKeywords)
                 /\ ~InList(Lower(turn'.message), CancelKeywords))
                   => /\ incident_flow'.current_step = incident_flow.current_step
                      /\ turn'.reply.kind = "follow_up"]_vars

\* the flow is asking a date question
AtDateQuestion(flow) ==
    /\ FlowActive(flow)
    /\ ~flow.confirmation_step
    /\ flow.current_step < Len(TEMPLATE_CONFIG)
    /\ TEMPLATE_CONFIG[flow.current_step + 1].type = "date_text"

\* C24: at a date question of the incident flow, the reply is validated by
\* the Time/Date Normalizer's parse_date against the session reference date:
\* it is accepted (slot set to the resulting ISO date, current_step advanced
\* by one) exactly when parse_date succeeds, and otherwise current_step and
\* the record are unchanged and the user is re-prompted.
C24_DateValidatedByNormalizer ==
    [][(/\ IsTurnStep
        /\ AtDateQuestion(incident_flow)
        /\ turn'.flow_handler_calls = 1
        /\ ~InList(Lower(turn'.message), CancelKeywords))
          => LET key == TEMPLATE_CONFIG[incident_flow.current_step + 1].key
                 parsed == parse_date_description_to_date_obj(turn'.message,
                                                              WallClockDate)
             IN  IF parsed # NoDate
                 THEN /\ incident_flow'.current_step
                             = incident_flow.current_step + 1
                      /\ key \in DOMAIN incident_flow'.collected_data
                      /\ incident_flow'.collected_data[key] = strftime_iso(parsed)
                 ELSE /\ incident_flow'.current_step = incident_flow.current_step
                      /\ incident_flow'.collected_data
                             = incident_flow.collected_data
                      /\ turn'.reply.kind = "invalid_date"]_vars

\* the step is a search of a Task Agent whose client call returned
IsSearchStep ==
    /\ tool'.name \in {"smart_search", "search_content", "search_issues"}
    /\ ~tool'.raises

\* the full list of results of the search of the step, as the tool returns
\* it; the empty list when the search found nothing
SearchOutput ==
    IF ~tool'.result.success THEN <<>>
    ELSE IF tool'.name = "smart_search" THEN tool'.result.all_results
    ELSE IF tool'.name = "search_content" THEN tool'.result.results
    ELSE tool'.result.issues

\* the memory holds no partition info, or the info it holds describes the
\* results it holds
InfoDescribes(context) ==
    LET info == context.filtered_results_info
        last_results == context.last_search_results
    IN  \/ info = NoFilteredInfo
        \/ /\ info.relevant_results + info.irrelevant_results = Len(last_results)
           /\ info.irrelevant_results = Len(info.irrelevant_titles)
           /\ \A t \in 1..Len(info.irrelevant_titles) :
                 \E i \in 1..Len(last_results) :
                     last_results[i].title = info.irrelevant_titles[t]

\* C25: after any search operation of either Task Agent returns (including
\* one that finds nothing), the stored CandidateSet consists exactly of that
\* search's results and any partition info describes that same search; no
\* item or partition info of an earlier search remains.
C25_SearchReplacesCandidateSet ==
    [][IsSearchStep
          => IF tool'.agent = "jira"
             THEN jira_context'.last_search_results = SearchOutput
             ELSE /\ confluence_context'.last_search_results = SearchOutput
                  /\ InfoDescribes(confluence_context')]_vars

\* C26: in the CandidateSet stored by a Wiki-Agent smart-search with n
\* results, the index values assigned to the items are exactly 1..n, each
\* used once, for every interleaving of relevant and filtered results in
\* the raw result list.
C26_IndicesContiguous ==
    (tool.name = "smart_search" /\ tool.result.success)
        => LET stored == confluence_context.last_search_results
           IN  /\ stored = tool.result.all_results
               /\ {stored[i].index : i \in 1..Len(stored)} = 1..Len(stored)
               /\ \A i, j \in 1..Len(stored) :
                      stored[i].index = stored[j].index => i = j

\* C27: in both Task Agents, after a get-details operation succeeds for
\* item X, the CurrentItemPointer refers to X: a following get-current-item
\* returns X, and not an earlier item or "none selected".
C27_DetailsSetCurrentItem ==
    [][/\ (/\ tool.name = "get_page_details"
           /\ tool.result.success
           /\ tool'.name = "get_current_page")
             => /\ tool'.result.success
                /\ tool'.result.page.id = tool.result.page.id
                /\ tool'.result.page.title = tool.result.page.title
       /\ (/\ tool.name = "get_issue_details"
           /\ tool.result.success
           /\ tool'.name = "get_current_issue")
             => /\ tool'.result.success
                /\ tool'.result.issue_key = tool.result.issue.key]_vars

\* the Wiki Agent's half of C27, as a property of the memory
WikiDetailsSetCurrentPage ==
    /\ (tool.name = "get_page_details" /\ tool.result.success)
          => /\ confluence_context.current_page.id = tool.result.page.id
             /\ confluence_context.current_page.title = tool.result.page.title
    /\ tool.name = "get_current_page"
          => /\ tool.result.page = confluence_context.current_page
             /\ tool.result.success = (confluence_context.current_page # NoCurrentPage)

\* the references of the model that mean "the last one"
LastReferences == { <<"l","a"," ","u_acute","l","t","i","m","a">> }

\* C28: for every non-empty CandidateSet, a reference meaning "the last one"
\* (with no numeric or ordinal pattern) resolves, in each Task Agent's
\* resolver, to the item at index = length of the full list (relevant +
\* filtered).
C28_LastReturnsLastItem ==
    (ResolverCalled /\ tool.reference \in LastReferences /\ Candidates # <<>>)
        => IF tool.name = "get_page_by_reference"
           THEN ReturnsPageAt(Len(Candidates))
           ELSE ReturnsIssueAt(Len(Candidates))

\* the Issue Agent's half of C28
IssueLastReturnsLastItem ==
    (/\ tool.name = "get_issue_by_reference"
     /\ tool.reference \in LastReferences
     /\ Candidates # <<>>)
        => ReturnsIssueAt(Len(Candidates))

\* the number of days from the reference date back to the nearest date, the
\* reference date included, whose weekday is w
DaysBackOrTodayTo(today, w) ==
    CHOOSE k \in 0..6 : weekday(minus_days(today, k)) = w

\* C29: for every reference date and every bare weekday name W,
\* parse_date(W, reference) is the nearest date on or before the reference
\* date whose weekday is W (0 to 6 days back); it is never a date after the
\* reference date.
C29_BareWeekdayIsNotAfterReference ==
    (normalizer.fn = "parse_date" /\ normalizer.done /\ normalizer.bare # -1) =>
        /\ normalizer.result # NoDate
        /\ toordinal(normalizer.result) <= toordinal(normalizer.today)
        /\ normalizer.result = minus_days(normalizer.today,
                                          DaysBackOrTodayTo(normalizer.today, normalizer.bare))

\* what the parser does with a bare weekday name: the day of that name in
\* the week, Monday to Sunday, of the reference date
BareWeekdayIsInReferenceWeek ==
    (normalizer.fn = "parse_date" /\ normalizer.done /\ normalizer.bare # -1) =>
        /\ normalizer.result # NoDate
        /\ weekday(normalizer.result) = normalizer.bare
        /\ toordinal(normalizer.result) - normalizer.bare
              = toordinal(normalizer.today) - weekday(normalizer.today)

\* add_worklog has been called and has returned
WorklogCalled ==
    normalizer.fn = "add_worklog" /\ normalizer.done /\ tool.name = "add_worklog"

\* the duration text of the call is not a duration
DurationFails ==
    \/ parse_time_raises(normalizer.time_str)
    \/ parse_time_str_to_seconds(normalizer.time_str) = None

\* the date text of the call is not a date
DateFails ==
    parse_date_description_to_date_obj(normalizer.date_str, normalizer.today) = NoDate

\* the date at the head of a "started" timestamp
StartedDate(started) == strptime(SubSeq(started, 1, 10), "-", TRUE)

WorklogMadeAtNoonOfParsedDate ==
    /\ WorklogCalled
    /\ normalizer.time_str = <<"1",",","5","h">>
    /\ normalizer.date_str = <<"a","y","e","r">>
    /\ normalizer.today = [y |-> 2024, m |-> 5, d |-> 23]
    /\ tool.result.success
    /\ tool.rest_call = [called |-> TRUE, issue_key |-> <<"O","P","S","-","7">>, time_in_sec |-> 5400,
                         started |-> <<"2","0","2","4","-","0","5","-","2","2","T","1","2",":","0","0",":","0","0",".","0","0","0","-","0","3","0","0">>]

=============================================================================
